---- MODULE Spec2Model ----
(***************************************************************************)
(* Clipberry: trust ledger (storage), pairing coordinator, transport       *)
(* sessions and sync orchestration, modelled as state machines.            *)
(*                                                                         *)
(* Specifications:                                                         *)
(*   SpecLedger   one caller driving ClipboardDatabase, one call at a time *)
(*   SpecAddRace  several tasks inside add_item at once                    *)
(*   SpecPairing  PairingManager: tokens against a clock                   *)
(*   SpecTokens   the same with get_active_tokens                          *)
(*   SpecSync     inbound sessions feeding _on_item_received               *)
(*   SpecPairHost  complete_pairing_as_host calls over tokens and ledger   *)
(*   SpecBroadcast several sessions: capture, receipt, broadcast_item      *)
(*   SpecMesh      several devices exchanging captured payloads            *)
(*   SpecPolicy    captures and receipts under every sync_text / sync_images *)
(*   SpecMonitor   ClipboardMonitor: change signal, poll and write-back     *)
(*   SpecIdentity  SecurityManager.initialize over the persisted key material *)
(*   SpecStop      service start() and stop() around the transport           *)
(*   SpecTransport handshakes and receive loops of both transport roles    *)
(*   SpecBinding   every writer of the devices table                       *)
(*   SpecReply     ACK and PONG of the listening side over several sessions *)
(***************************************************************************)
EXTENDS Integers, FiniteSets, Sequences, TLC

\* ------------------------------------------------------------------ bounds
MaxItemId == 2
MaxHash == 2
MaxOrigin == 1
MaxDevice == 1
MaxFp == 1
MaxToken == 2
MaxTtl == 2
MaxTime == 3
MaxIssue == 3
MaxTask == 2
MaxConn == 1
MaxPeer == 2
MaxHostCall == 2
MaxSock == 2
MaxNode == 3
MaxPayload == 2
MaxCopies == 2
MaxWire == 2
MaxSignal == 2
MaxCert == 2
MaxPeerCert == 2

ItemIds == 1..MaxItemId
Hashes == 1..MaxHash
\* device ids seen in the origin_device_id column
Origins == 1..MaxOrigin
\* device ids of peers (devices.id, HELLO device_id)
DeviceIds == 1..MaxDevice
Fingerprints == 1..MaxFp
\* last_seen_timestamp: NULL or a timestamp; no operation compares two timestamps,
\* so the value written by update_device_last_seen is one abstract instant
SeenTimes == {"NULL", "seen"}

\* ClipboardItem, reduced to the columns the constraints and the claims use
ClipboardItem == [id : ItemIds, content_hash : Hashes, origin_device_id : Origins]

\* Device row, keyed by id in the devices table
Device == [certificate_fingerprint : Fingerprints, is_trusted : BOOLEAN,
           last_seen_timestamp : SeenTimes]

\* strings generate_pairing_token can return
Tokens == 1..MaxToken
\* ttl_seconds
Ttls == 1..MaxTtl
\* the n-th generate_token call issues the PairingToken with serial n
Serials == 1..MaxIssue
\* device ids that peers present when they pair or say HELLO
PeerIds == 1..MaxPeer
\* a HELLO without device_id: data.get("device_id") is None
NoId == 0
HelloIds == PeerIds \cup {NoId}

VARIABLES
    conn,               \* ClipboardDatabase._conn is not None
    items,              \* rows of clipboard_items
    devices,            \* rows of devices: id -> Device
    ret,                \* the last ledger call: what add_item returned for which
                        \* content_hash ("true"/"false"), or "none" after another call
    everAccepted,       \* content hashes for which add_item has returned True
    reaccepted,         \* add_item has returned True for a hash it had accepted before
    acceptedSinceClear  \* per content_hash: add_item calls that returned True since
                        \* the last clear_clipboard_history

VARIABLES
    active_tokens,      \* PairingManager._active_tokens: token -> PairingToken
    now,                \* utc_now()
    issued,             \* number of generate_token calls so far
    consumed,           \* per issued PairingToken: consume_token calls that returned True
    dead,               \* per token string: "consumed", found "expired", or "no"
    lastTok             \* the last PairingManager call, its result, the table before it
                        \* and, for get_active_tokens, the token strings of its list

VARIABLES
    addTasks,           \* per task: where its add_item call stands, its item, its result
    dbQueue,            \* statements handed to the connection's thread, oldest first
    raced               \* every task's INSERT was queued before any of them ran

VARIABLES
    sync_enabled,       \* ClipboardSyncService._sync_enabled
    sync_text,          \* config.sync_text
    sync_images,        \* config.sync_images
    links,              \* per transport connection: state, direction, the certificate
                        \* seen on it, the device_id of the peer's HELLO, what was last
                        \* sent on it, and the _on_item_received call its loop is in
    connections,        \* WebSocketServer._connections: device_id -> connection
    client_connections, \* WebSocketClient._connections: device_id -> connection
    clipboard,          \* the local clipboard: content and ClipboardMonitor._ignore_next
    revoking,           \* the service revoke_device call: where it stands, its
                        \* device id, and whether it ended by raising
    revoked             \* per device id: "no", "revoked" by the ledger, or paired
                        \* again after that ("repaired")

VARIABLES
    hostCalls,          \* per complete_pairing_as_host call: where it stands, its
                        \* arguments, its result, the serial of the PairingToken it
                        \* validated, what the token string was when presented and
                        \* whether the call was suspended at add_device
    devQueue            \* add_device statements handed to the connection's thread

VARIABLES
    socks,              \* per websocket of the transport: state, direction and
                        \* the device_id of the peer's HELLO
    srv_table,          \* WebSocketServer._connections: device_id -> websocket
    cli_table,          \* WebSocketClient._connections: device_id -> websocket
    newest,             \* per peer id: the websocket of its latest inbound HELLO
    bcast,              \* the broadcast_item call: its item, the sessions still to
                        \* send to, the snapshot it iterates, the sends attempted
                        \* in order and the ones that raised
    cbs                 \* the last orchestrator callback (_on_clipboard_captured
                        \* or _on_item_received), whether its item was over
                        \* max_item_size, and how it ended

VARIABLES
    ws,                 \* per websocket of the transport: the role of this side, where
                        \* its handler stands, the first message it received, the
                        \* device_id of the peer's HELLO, what connect_to_device
                        \* returned, whether a receive loop task exists, the item in
                        \* the receive callback, the callbacks made and the last
                        \* message sent on it
    srv_conns,          \* WebSocketServer._connections: device_id -> websocket
    cli_conns           \* WebSocketClient._connections: device_id -> websocket

VARIABLES
    monitor,            \* ClipboardMonitor and the clipboard it watches: whether it
                        \* is new, watching (started) or stopped, the content (0
                        \* when empty), whether set_clipboard_text put it there,
                        \* _ignore_next, _last_hash and the _process_clipboard tasks
                        \* that dataChanged has scheduled and that have not run yet
    callback            \* the last call of the capture callback: the hash of its
                        \* item and whether that content had been written back

VARIABLES
    cert_file,          \* device.crt: Absent, Corrupt, or the number of the
                        \* certificate it holds
    key_file,           \* device.key: Absent, Corrupt, or the number of the
                        \* certificate whose private key it holds
    identity,           \* SecurityManager: certificate, private_key and fingerprint
                        \* (0 for None) and how the last initialize() ended
    generated           \* certificates generated so far

VARIABLES
    service             \* ClipboardSyncService: where start() and stop() stand, whether
                        \* the listening socket accepts, and the poll and sweep tasks

VARIABLES
    pending,            \* per websocket of the listening side: the id of the item
                        \* whose receive callback its handler is awaiting (0: none)
    reply               \* the last reply of the listening side: ACK or PONG,
                        \* the websocket the request came on, the websocket the
                        \* reply went out on (0: none) and the error that kept
                        \* it from going out

VARIABLES
    nodes,              \* per device of the mesh: the content hashes its ledger
                        \* holds, its clipboard content, ClipboardMonitor's
                        \* _ignore_next and _last_hash
    dialed,             \* open sessions: <<a, b>> when a has dialed b
    wire,               \* per ordered pair of devices: the CLIPBOARD_ITEM messages
                        \* in flight from the first to the second, oldest first
    copies,             \* how many times a user has copied something
    accepts,            \* per device and hash: add_item calls that returned True
    bcasts              \* per device and hash: broadcast_item calls for that hash

ledgerVars == <<conn, items, devices, ret, everAccepted, reaccepted, acceptedSinceClear>>
pairingVars == <<active_tokens, now, issued, consumed, dead, lastTok>>

raceVars == <<addTasks, dbQueue, raced>>
syncVars == <<sync_enabled, sync_text, sync_images, links, connections,
              client_connections, clipboard, revoking, revoked>>

hostVars == <<hostCalls, devQueue>>
bcastVars == <<socks, srv_table, cli_table, newest, bcast, cbs>>
meshVars == <<nodes, dialed, wire, copies, accepts, bcasts>>
transportVars == <<ws, srv_conns, cli_conns>>
monitorVars == <<monitor, callback>>
identityVars == <<cert_file, key_file, identity, generated>>
stopVars == <<service>>
replyVars == <<pending, reply>>
laterVars == <<transportVars, monitorVars, identityVars, stopVars, replyVars>>

vars == <<ledgerVars, pairingVars, raceVars, syncVars, hostVars, bcastVars, meshVars,
          laterVars>>

\* the components a step of one component leaves alone
LedgerOnly == UNCHANGED <<laterVars, meshVars, pairingVars, raceVars, syncVars, hostVars, bcastVars>>
PairingOnly == UNCHANGED <<laterVars, meshVars, ledgerVars, raceVars, syncVars, hostVars, bcastVars>>
RaceOnly == UNCHANGED <<laterVars, meshVars, pairingVars, syncVars, hostVars, bcastVars, devices, ret,
                        everAccepted, reaccepted, acceptedSinceClear>>
SyncOnly == UNCHANGED <<laterVars, meshVars, pairingVars, raceVars, hostVars, bcastVars, conn, ret,
                        everAccepted, reaccepted, acceptedSinceClear>>
HostOnly == UNCHANGED <<laterVars, meshVars, raceVars, syncVars, bcastVars, conn, items, ret, everAccepted,
                        reaccepted, acceptedSinceClear, issued>>
MeshOnly == UNCHANGED <<laterVars, ledgerVars, pairingVars, raceVars, syncVars, hostVars, bcastVars>>
EarlierVars == <<ledgerVars, pairingVars, raceVars, syncVars, hostVars, bcastVars, meshVars>>
TransportOnly == UNCHANGED <<EarlierVars, monitorVars, identityVars, stopVars, replyVars>>
MonitorOnly == UNCHANGED <<EarlierVars, transportVars, identityVars, stopVars, replyVars>>
IdentityOnly == UNCHANGED <<EarlierVars, transportVars, monitorVars, stopVars, replyVars>>
ReplyOnly == UNCHANGED <<EarlierVars, transportVars, monitorVars, identityVars, stopVars>>
StopOnly == UNCHANGED <<pairingVars, raceVars, syncVars, hostVars, bcastVars, meshVars,
                        monitorVars, identityVars, replyVars, cli_conns, items, devices, ret,
                        everAccepted, reaccepted, acceptedSinceClear>>
BcastOnly == UNCHANGED <<laterVars, meshVars, pairingVars, raceVars, hostVars, conn, ret, everAccepted,
                         reaccepted, acceptedSinceClear, sync_enabled, sync_text,
                         sync_images, links, connections, client_connections,
                         revoking, revoked>>

\* ------------------------------------------------------------ ledger: rows
RowsWithHash(rows, h) == {r \in rows : r.content_hash = h}
RowsWithId(rows, i) == {r \in rows : r.id = i}

\* add_item without the UNIQUE(content_hash) constraint: only the primary key
InsertViolates_NoUniqueHash(rows, item) ==
    RowsWithId(rows, item.id) # {}

\* The INSERT raises IntegrityError: id is PRIMARY KEY, content_hash is UNIQUE
InsertViolates(rows, item) ==
    \/ RowsWithId(rows, item.id) # {}
    \/ RowsWithHash(rows, item.content_hash) # {}

\* Return value of add_item on a handle in state c with rows
add_item_result(c, rows, item) ==
    IF ~c THEN FALSE
    ELSE IF InsertViolates(rows, item) THEN FALSE
    ELSE TRUE

\* Rows after add_item
add_item_rows(c, rows, item) ==
    IF add_item_result(c, rows, item) THEN rows \cup {item} ELSE rows

NoReturn == [val |-> "none", hash |-> 0]

Bump(f, h) == [f EXCEPT ![h] = IF @ < 2 THEN @ + 1 ELSE @]

\* --------------------------------------------------------- ledger: actions
connect ==
    /\ conn' = TRUE
    /\ ret' = NoReturn
    /\ UNCHANGED <<items, devices, everAccepted, reaccepted, acceptedSinceClear>>
    /\ LedgerOnly

disconnect ==
    /\ conn' = FALSE
    /\ ret' = NoReturn
    /\ UNCHANGED <<items, devices, everAccepted, reaccepted, acceptedSinceClear>>
    /\ LedgerOnly

add_item(item) ==
    LET res == add_item_result(conn, items, item) IN
    /\ items' = add_item_rows(conn, items, item)
    /\ ret' = [val |-> IF res THEN "true" ELSE "false", hash |-> item.content_hash]
    /\ everAccepted' = IF res THEN everAccepted \cup {item.content_hash} ELSE everAccepted
    /\ reaccepted' = (reaccepted \/ (res /\ item.content_hash \in everAccepted))
    /\ acceptedSinceClear' =
          IF res THEN Bump(acceptedSinceClear, item.content_hash) ELSE acceptedSinceClear
    /\ UNCHANGED <<conn, devices>>
    /\ LedgerOnly

\* INSERT OR REPLACE INTO devices
add_device_rows(c, devs, d, device) ==
    IF ~c THEN devs
    ELSE [x \in DOMAIN devs \cup {d} |-> IF x = d THEN device ELSE devs[x]]

add_device(d, device) ==
    /\ devices' = add_device_rows(conn, devices, d, device)
    /\ ret' = NoReturn
    /\ UNCHANGED <<conn, items, everAccepted, reaccepted, acceptedSinceClear>>
    /\ LedgerOnly

\* UPDATE devices SET last_seen_timestamp = ? WHERE id = ?
update_device_last_seen_rows(c, devs, d, ts) ==
    IF c /\ d \in DOMAIN devs
    THEN [devs EXCEPT ![d].last_seen_timestamp = ts]
    ELSE devs

update_device_last_seen(d, ts) ==
    /\ devices' = update_device_last_seen_rows(conn, devices, d, ts)
    /\ ret' = NoReturn
    /\ UNCHANGED <<conn, items, everAccepted, reaccepted, acceptedSinceClear>>
    /\ LedgerOnly

\* revoke_device as DELETE FROM devices WHERE id = ?
revoke_device_rows_Delete(c, devs, d) ==
    IF c /\ d \in DOMAIN devs
    THEN [x \in DOMAIN devs \ {d} |-> devs[x]]
    ELSE devs

\* UPDATE devices SET is_trusted = 0 WHERE id = ?
revoke_device_rows(c, devs, d) ==
    IF c /\ d \in DOMAIN devs
    THEN [devs EXCEPT ![d].is_trusted = FALSE]
    ELSE devs

revoke_device(d) ==
    /\ devices' = revoke_device_rows(conn, devices, d)
    /\ ret' = NoReturn
    /\ UNCHANGED <<conn, items, everAccepted, reaccepted, acceptedSinceClear>>
    /\ LedgerOnly

\* DELETE FROM clipboard_items
clear_clipboard_history ==
    /\ items' = IF conn THEN {} ELSE items
    /\ ret' = NoReturn
    /\ UNCHANGED <<everAccepted, reaccepted>>
    /\ acceptedSinceClear' = IF conn THEN [h \in Hashes |-> 0] ELSE acceptedSinceClear
    /\ UNCHANGED <<conn, devices>>
    /\ LedgerOnly

\* ClipboardDatabase.__init__ on a fresh db_path: no handle, no rows
InitLedger ==
    /\ conn = FALSE
    /\ items = {}
    /\ devices = << >>
    /\ ret = NoReturn
    /\ everAccepted = {}
    /\ reaccepted = FALSE
    /\ acceptedSinceClear = [h \in Hashes |-> 0]

NextLedger ==
    \/ connect
    \/ disconnect
    \/ \E item \in ClipboardItem : add_item(item)
    \/ \E d \in DeviceIds, device \in Device : add_device(d, device)
    \/ \E d \in DeviceIds : update_device_last_seen(d, "seen")
    \/ \E d \in DeviceIds : revoke_device(d)
    \/ clear_clipboard_history

\* ----------------------------------------------------------------- pairing
\* a del that empties the whole table
Drop_All(f, t) == << >>

\* del self._active_tokens[token]
Drop(f, t) == [x \in DOMAIN f \ {t} |-> f[x]]

\* validate_token's test with >= instead of >
Expired_AtExpiry(tok, clock) == clock >= tok.expires_at

\* utc_now() > pairing_token.expires_at
Expired(tok, clock) == clock > tok.expires_at

validate_token_result(active, t, clock) ==
    IF t \notin DOMAIN active THEN FALSE
    ELSE IF Expired(active[t], clock) THEN FALSE
    ELSE TRUE

\* _active_tokens after validate_token
validate_token_tokens(active, t, clock) ==
    IF t \in DOMAIN active /\ Expired(active[t], clock)
    THEN Drop(active, t)
    ELSE active

consume_token_result(active, t, clock) == validate_token_result(active, t, clock)

\* consume_token that reports success and forgets the del
consume_token_tokens_NoDelete(active, t, clock) ==
    validate_token_tokens(active, t, clock)

\* _active_tokens after consume_token
consume_token_tokens(active, t, clock) ==
    IF validate_token_result(active, t, clock)
    THEN Drop(validate_token_tokens(active, t, clock), t)
    ELSE validate_token_tokens(active, t, clock)

\* one pass of _cleanup_expired_tokens
ExpiredTokens(active, clock) == {t \in DOMAIN active : active[t].expires_at <= clock}

cleanup_tokens(active, clock) ==
    [x \in DOMAIN active \ ExpiredTokens(active, clock) |-> active[x]]

TokCall(op, t, result) ==
    [op |-> op, token |-> t, result |-> result,
     before |-> active_tokens,
     wasDead |-> IF t \in Tokens THEN dead[t] ELSE "no",
     listed |-> {}]

\* generate_pairing_token() draws the string; nothing looks it up in _active_tokens
generate_token(t, ttl) ==
    /\ issued < MaxIssue
    /\ issued' = issued + 1
    /\ active_tokens' =
          [x \in DOMAIN active_tokens \cup {t} |->
              IF x = t THEN [expires_at |-> now + ttl, serial |-> issued + 1]
              ELSE active_tokens[x]]
    /\ lastTok' = TokCall("generate_token", t, TRUE)
    /\ UNCHANGED <<now, consumed, dead>>
    /\ PairingOnly

validate_token(t) ==
    /\ active_tokens' = validate_token_tokens(active_tokens, t, now)
    /\ lastTok' = TokCall("validate_token", t, validate_token_result(active_tokens, t, now))
    /\ dead' = IF t \in DOMAIN active_tokens /\ t \notin DOMAIN active_tokens'
               THEN [dead EXCEPT ![t] = "expired"] ELSE dead
    /\ UNCHANGED <<now, issued, consumed>>
    /\ PairingOnly

consume_token(t) ==
    LET res == consume_token_result(active_tokens, t, now) IN
    /\ active_tokens' = consume_token_tokens(active_tokens, t, now)
    /\ lastTok' = TokCall("consume_token", t, res)
    /\ consumed' = IF res
                   THEN [consumed EXCEPT ![active_tokens[t].serial] =
                            IF @ < 2 THEN @ + 1 ELSE @]
                   ELSE consumed
    /\ dead' = IF res THEN [dead EXCEPT ![t] = "consumed"]
               ELSE IF t \in DOMAIN active_tokens /\ t \notin DOMAIN active_tokens'
               THEN [dead EXCEPT ![t] = "expired"]
               ELSE dead
    /\ UNCHANGED <<now, issued>>
    /\ PairingOnly

\* the body of the sweep loop, once per asyncio.sleep(60)
cleanup_expired_tokens ==
    /\ active_tokens' = cleanup_tokens(active_tokens, now)
    /\ lastTok' = TokCall("cleanup", 0, FALSE)
    /\ dead' = [t \in Tokens |->
                  IF t \in ExpiredTokens(active_tokens, now) THEN "expired" ELSE dead[t]]
    /\ UNCHANGED <<now, issued, consumed>>
    /\ PairingOnly

\* the token strings of the list get_active_tokens returns
get_active_tokens_result(active, clock) ==
    {t \in DOMAIN active : active[t].expires_at > clock}

get_active_tokens ==
    /\ lastTok' = [TokCall("get_active_tokens", 0, FALSE) EXCEPT
                      !.listed = get_active_tokens_result(active_tokens, now)]
    /\ UNCHANGED <<active_tokens, now, issued, consumed, dead>>
    /\ PairingOnly

\* the clock advances
Tick ==
    /\ now < MaxTime
    /\ now' = now + 1
    /\ lastTok' = TokCall("tick", 0, FALSE)
    /\ UNCHANGED <<active_tokens, issued, consumed, dead>>
    /\ PairingOnly

InitPairing ==
    /\ active_tokens = << >>
    /\ now = 0
    /\ issued = 0
    /\ consumed = [n \in Serials |-> 0]
    /\ dead = [t \in Tokens |-> "no"]
    /\ lastTok = [op |-> "init", token |-> 0, result |-> FALSE,
                  before |-> << >>, wasDead |-> "no", listed |-> {}]

NextPairing ==
    \/ \E t \in Tokens, ttl \in Ttls : generate_token(t, ttl)
    \/ \E t \in Tokens : validate_token(t)
    \/ \E t \in Tokens : consume_token(t)
    \/ cleanup_expired_tokens
    \/ Tick

\* the same with callers that list the active tokens
NextTokens ==
    \/ \E t \in Tokens, ttl \in Ttls : generate_token(t, ttl)
    \/ \E t \in Tokens : validate_token(t)
    \/ \E t \in Tokens : consume_token(t)
    \/ cleanup_expired_tokens
    \/ get_active_tokens
    \/ Tick

\* ------------------------------------------------ complete_pairing_as_host
HostCalls == 1..MaxHostCall

NoHostCall == [pc |-> "idle", token |-> 0, peer |-> 0, fp |-> 0, result |-> "none",
               serial |-> 0, wasDead |-> "no", awaited |-> FALSE]

\* the Device complete_pairing_as_host builds
HostDevice(fp) ==
    [certificate_fingerprint |-> fp, is_trusted |-> TRUE, last_seen_timestamp |-> "NULL"]

\* the token test that only asks whether the string is in the table
host_token_ok_Present(active, t, clock) == t \in DOMAIN active

\* if not self.pairing_manager.validate_token(token): return False
host_token_ok(active, t, clock) == validate_token_result(active, t, clock)

\* the token string as validate_token or consume_token leaves it
DeadAfter(t, after, res) ==
    IF res THEN [dead EXCEPT ![t] = "consumed"]
    ELSE IF t \in DOMAIN active_tokens /\ t \notin DOMAIN after
    THEN [dead EXCEPT ![t] = "expired"]
    ELSE dead

\* complete_pairing_as_host up to its first suspension. validate_token runs at
\* once. On a connected ledger the call then waits for the connection's thread
\* to run add_device; with no handle add_device returns without suspending, so
\* consume_token and return True follow in the same step.
host_call(k, t, d, fp) ==
    /\ hostCalls[k].pc = "idle"
    /\ LET ok == host_token_ok(active_tokens, t, now)
           checked == validate_token_tokens(active_tokens, t, now)
           call == [NoHostCall EXCEPT !.token = t, !.peer = d, !.fp = fp,
                       !.wasDead = dead[t],
                       !.serial = IF t \in DOMAIN active_tokens
                                  THEN active_tokens[t].serial ELSE 0]
       IN  IF ~ok
           THEN /\ hostCalls' = [hostCalls EXCEPT ![k] =
                                    [call EXCEPT !.pc = "done", !.result = "false"]]
                /\ active_tokens' = checked
                /\ dead' = DeadAfter(t, checked, FALSE)
                /\ lastTok' = TokCall("validate_token", t, FALSE)
                /\ UNCHANGED <<devQueue, consumed>>
           ELSE IF conn
           THEN /\ hostCalls' = [hostCalls EXCEPT ![k] =
                                    [call EXCEPT !.pc = "queued", !.awaited = TRUE]]
                /\ devQueue' = Append(devQueue, k)
                /\ active_tokens' = checked
                /\ dead' = DeadAfter(t, checked, FALSE)
                /\ lastTok' = TokCall("validate_token", t, TRUE)
                /\ UNCHANGED consumed
           ELSE LET res == consume_token_result(checked, t, now)
                    left == consume_token_tokens(checked, t, now)
                IN  /\ hostCalls' = [hostCalls EXCEPT ![k] =
                                        [call EXCEPT !.pc = "done", !.result = "true"]]
                    /\ active_tokens' = left
                    /\ dead' = DeadAfter(t, left, res)
                    /\ consumed' = IF res THEN Bump(consumed, checked[t].serial)
                                   ELSE consumed
                    /\ lastTok' = TokCall("consume_token", t, res)
                    /\ UNCHANGED devQueue
    /\ UNCHANGED <<devices, now>>
    /\ HostOnly

\* the connection's thread runs the oldest INSERT OR REPLACE INTO devices
host_add_device_run ==
    /\ devQueue # << >>
    /\ LET k == Head(devQueue) IN
        /\ devices' = add_device_rows(TRUE, devices, hostCalls[k].peer,
                                      HostDevice(hostCalls[k].fp))
        /\ hostCalls' = [hostCalls EXCEPT ![k].pc = "written"]
    /\ devQueue' = Tail(devQueue)
    /\ UNCHANGED <<active_tokens, now, consumed, dead, lastTok>>
    /\ HostOnly

\* the call resumes after add_device: consume_token, whose result is dropped,
\* then return True
host_resume(k) ==
    /\ hostCalls[k].pc = "written"
    /\ LET t == hostCalls[k].token
           res == consume_token_result(active_tokens, t, now)
           left == consume_token_tokens(active_tokens, t, now)
       IN  /\ active_tokens' = left
           /\ dead' = DeadAfter(t, left, res)
           /\ consumed' = IF res THEN Bump(consumed, active_tokens[t].serial)
                          ELSE consumed
           /\ lastTok' = TokCall("consume_token", t, res)
    /\ hostCalls' = [hostCalls EXCEPT ![k].pc = "done", ![k].result = "true"]
    /\ UNCHANGED <<devices, devQueue, now>>
    /\ HostOnly

InitHost ==
    /\ hostCalls = [k \in HostCalls |-> NoHostCall]
    /\ devQueue = << >>

\* connect and disconnect are awaited by start() and stop(); disconnect's close
\* goes to the connection's thread behind the statements already queued there
NextPairHost ==
    \/ connect
    \/ devQueue = << >> /\ disconnect
    \/ \E t \in Tokens, ttl \in Ttls : generate_token(t, ttl)
    \/ Tick
    \/ \E k \in HostCalls, t \in Tokens, d \in PeerIds, fp \in Fingerprints :
          host_call(k, t, d, fp)
    \/ host_add_device_run
    \/ \E k \in HostCalls : host_resume(k)

\* ------------------------------------------- several tasks inside add_item
\* asyncio tasks that each call add_item once
Tasks == 1..MaxTask

NoItem == [id |-> 0, content_hash |-> 0, origin_device_id |-> 0]

\* add_item up to its await: the handle test, then the INSERT is handed to the
\* connection's thread, which runs statements one at a time in arrival order
add_item_call(t, item) ==
    /\ addTasks[t].pc = "idle"
    /\ IF ~conn
       THEN /\ addTasks' = [addTasks EXCEPT ![t] =
                               [pc |-> "done", item |-> item, result |-> FALSE]]
            /\ UNCHANGED <<dbQueue, raced>>
       ELSE /\ addTasks' = [addTasks EXCEPT ![t] =
                               [pc |-> "queued", item |-> item, result |-> FALSE]]
            /\ dbQueue' = Append(dbQueue, t)
            /\ raced' = (raced \/ Len(dbQueue') = MaxTask)
    /\ UNCHANGED <<conn, items>>
    /\ RaceOnly

\* the connection's thread runs the oldest INSERT; the task resumes with True,
\* or with False from the except IntegrityError branch
add_item_run ==
    /\ dbQueue # << >>
    /\ LET t == Head(dbQueue)
           item == addTasks[t].item
           ok == ~InsertViolates(items, item)
       IN  /\ items' = IF ok THEN items \cup {item} ELSE items
           /\ addTasks' = [addTasks EXCEPT ![t] =
                              [pc |-> "done", item |-> item, result |-> ok]]
    /\ dbQueue' = Tail(dbQueue)
    /\ UNCHANGED <<conn, raced>>
    /\ RaceOnly

InitRace ==
    /\ addTasks = [t \in Tasks |-> [pc |-> "idle", item |-> NoItem, result |-> FALSE]]
    /\ dbQueue = << >>
    /\ raced = FALSE

NextRace ==
    \/ \E t \in Tasks, item \in ClipboardItem : add_item_call(t, item)
    \/ add_item_run

\* ------------------------------------------- sessions and _on_item_received
Conns == 1..MaxConn
ItemTypes == {"text", "image"}

\* The payload decides the hash, so the hash decides the type: odd hashes stand
\* for texts (captured only when non-empty), even hashes for images
TypeOf(h) == IF h % 2 = 1 THEN "text" ELSE "image"

\* a CLIPBOARD_ITEM message as _handle_clipboard_item decodes it; text_content
\* says whether the message carried a non-empty text; blob_path is never set
Wire(item) ==
    [item |-> item, type |-> TypeOf(item.content_hash),
     text_content |-> TypeOf(item.content_hash) = "text"]

WireItems == {Wire(item) : item \in ClipboardItem}

NoWire == [item |-> NoItem, type |-> "text", text_content |-> FALSE]
NoMessage == [type |-> "none", ref |-> 0]
\* after_revoke: the peer id had been revoked when the message arrived
IdleCall == [pc |-> "idle", msg |-> NoWire, outcome |-> "none", after_revoke |-> FALSE]
FreeLink == [state |-> "free", dir |-> "none", cert |-> 0, peer |-> 0,
             out |-> NoMessage, cb |-> IdleCall]

Put(table, d, c) == [x \in DOMAIN table \cup {d} |-> IF x = d THEN c ELSE table[x]]

\* the table of the side that owns connection c
TableOf(c) == IF links[c].dir = "in" THEN connections ELSE client_connections

\* _on_item_received's gate with the is_trusted test left out
TrustedDevice_AnyRecord(c, devs, d) == c /\ d \in DOMAIN devs

\* get_device(peer_device_id) returns a record and device.is_trusted
TrustedDevice(c, devs, d) == c /\ d \in DOMAIN devs /\ devs[d].is_trusted

\* _handle_connection up to its recv(): the TLS handshake is done and our HELLO is
\* sent. The server context asks for no client certificate, so none is seen.
accept(c) ==
    /\ links[c].state = "free"
    /\ links' = [links EXCEPT ![c] =
                    [FreeLink EXCEPT !.state = "accepted", !.dir = "in",
                                     !.out = [type |-> "hello", ref |-> 0]]]
    /\ UNCHANGED <<sync_enabled, sync_text, sync_images, connections, client_connections,
                   clipboard, revoking, revoked, items, devices>>
    /\ SyncOnly

\* _handle_connection: the first message is a HELLO announcing device_id d
hello(c, d) ==
    /\ links[c].state = "accepted"
    /\ links' = [links EXCEPT ![c].state = "session", ![c].peer = d]
    /\ connections' = Put(connections, d, c)
    /\ UNCHANGED <<sync_enabled, sync_text, sync_images, client_connections,
                   clipboard, revoking, revoked, items, devices>>
    /\ SyncOnly

\* _handle_connection: the first message is no HELLO (or recv fails); the handler
\* falls through to finally with peer_device_id None
not_hello(c) ==
    /\ links[c].state = "accepted"
    /\ links' = [links EXCEPT ![c] = FreeLink]
    /\ UNCHANGED <<sync_enabled, sync_text, sync_images, connections, client_connections,
                   clipboard, revoking, revoked, items, devices>>
    /\ SyncOnly

\* connect_to_device, success path: the peer with certificate fp sent a HELLO
\* announcing d, ours is sent, the session is registered and its loop started
connect_to_device(c, d, fp) ==
    /\ links[c].state = "free"
    /\ links' = [links EXCEPT ![c] =
                    [FreeLink EXCEPT !.state = "session", !.dir = "out", !.cert = fp,
                                     !.peer = d, !.out = [type |-> "hello", ref |-> 0]]]
    /\ client_connections' = Put(client_connections, d, c)
    /\ UNCHANGED <<sync_enabled, sync_text, sync_images, connections,
                   clipboard, revoking, revoked, items, devices>>
    /\ SyncOnly

\* the receive loop of session c takes a CLIPBOARD_ITEM and calls
\* _on_item_received, which runs to its first await
recv_item(c, w) ==
    /\ links[c].state \in {"session", "closing"}
    /\ links[c].cb.pc = "idle"
    /\ links' = [links EXCEPT ![c].cb =
                    [pc |-> IF sync_enabled THEN "gate" ELSE "finish",
                     msg |-> w,
                     outcome |-> IF sync_enabled THEN "none" ELSE "disabled",
                     after_revoke |-> revoked[links[c].peer] # "no"]]
    /\ UNCHANGED <<sync_enabled, sync_text, sync_images, connections, client_connections,
                   clipboard, revoking, revoked, items, devices>>
    /\ SyncOnly

\* get_device answers; the trust test and the type filters run
gate(c) ==
    /\ links[c].cb.pc = "gate"
    /\ LET w == links[c].cb.msg IN
       links' = [links EXCEPT ![c].cb =
                    IF ~TrustedDevice(conn, devices, links[c].peer)
                    THEN [@ EXCEPT !.pc = "finish", !.outcome = "untrusted"]
                    ELSE IF \/ w.type = "text" /\ ~sync_text
                            \/ w.type = "image" /\ ~sync_images
                    THEN [@ EXCEPT !.pc = "finish", !.outcome = "filtered"]
                    ELSE [@ EXCEPT !.pc = "store"]]
    /\ UNCHANGED <<sync_enabled, sync_text, sync_images, connections, client_connections,
                   clipboard, revoking, revoked, items, devices>>
    /\ SyncOnly

\* add_item answers
store(c) ==
    /\ links[c].cb.pc = "store"
    /\ LET w == links[c].cb.msg
           added == add_item_result(conn, items, w.item)
       IN  /\ items' = add_item_rows(conn, items, w.item)
           /\ links' = [links EXCEPT ![c].cb =
                           IF added
                           THEN [@ EXCEPT !.pc = "seen", !.outcome = "accepted"]
                           ELSE [@ EXCEPT !.pc = "finish", !.outcome = "duplicate"]]
    /\ UNCHANGED <<sync_enabled, sync_text, sync_images, connections, client_connections,
                   clipboard, revoking, revoked, devices>>
    /\ SyncOnly

\* update_device_last_seen answers
seen(c) ==
    /\ links[c].cb.pc = "seen"
    /\ devices' = update_device_last_seen_rows(conn, devices, links[c].peer, "seen")
    /\ links' = [links EXCEPT ![c].cb.pc = "finish"]
    /\ UNCHANGED <<sync_enabled, sync_text, sync_images, connections, client_connections,
                   clipboard, revoking, revoked, items>>
    /\ SyncOnly

\* a transport that acknowledges only what the orchestrator did not drop as untrusted
AckDue_TrustedOnly(dir, registered, outcome) ==
    dir = "in" /\ registered /\ outcome # "untrusted"

\* _handle_clipboard_item after the callback: on_item_received's result is not
\* looked at; the listening side sends the ACK if the table has the peer id, the
\* dialing side sends none
AckDue(dir, registered, outcome) == dir = "in" /\ registered

\* the rest of _on_item_received and of the loop body: an accepted text is
\* written to the clipboard under _ignore_next; the listening side then sends the
\* ACK on whatever connection the table holds for the peer id (a KeyError when
\* there is none is caught and logged by _handle_message)
finish(c) ==
    /\ links[c].cb.pc = "finish"
    /\ LET w == links[c].cb.msg
           p == links[c].peer
           acked == AckDue(links[c].dir, p \in DOMAIN connections, links[c].cb.outcome)
           to == IF acked THEN connections[p] ELSE c
       IN  /\ clipboard' =
                 IF links[c].cb.outcome = "accepted" /\ w.type = "text" /\ w.text_content
                 THEN [content |-> w.item.content_hash, ignore_next |-> TRUE]
                 ELSE clipboard
           /\ links' = [x \in Conns |->
                 [links[x] EXCEPT
                    !.cb = IF x = c THEN IdleCall ELSE @,
                    !.out = IF acked /\ x = to
                            THEN [type |-> "ack", ref |-> w.item.id] ELSE @]]
    /\ UNCHANGED <<sync_enabled, sync_text, sync_images, connections, client_connections,
                   revoking, revoked, items, devices>>
    /\ SyncOnly

\* the receive loop of c ends (the peer closed, an I/O error, or our own close())
\* and its finally pops the peer id from the table of its side
close(c) ==
    /\ links[c].state \in {"session", "closing"}
    /\ links[c].cb.pc = "idle"
    /\ links' = [links EXCEPT ![c] = FreeLink]
    /\ IF links[c].dir = "in"
       THEN /\ connections' = Drop(connections, links[c].peer)
            /\ UNCHANGED client_connections
       ELSE /\ client_connections' = Drop(client_connections, links[c].peer)
            /\ UNCHANGED connections
    /\ UNCHANGED <<sync_enabled, sync_text, sync_images,
                   clipboard, revoking, revoked, items, devices>>
    /\ SyncOnly

\* PairingWorkflow.complete_pairing_as_client: the peer is recorded as trusted
complete_pairing_as_client(d, fp) ==
    /\ devices' = add_device_rows(conn, devices, d,
                      [certificate_fingerprint |-> fp, is_trusted |-> TRUE,
                       last_seen_timestamp |-> "NULL"])
    /\ revoked' = IF conn /\ revoked[d] # "no"
                  THEN [revoked EXCEPT ![d] = "repaired"] ELSE revoked
    /\ UNCHANGED <<sync_enabled, sync_text, sync_images, links, connections,
                   client_connections, clipboard, revoking, items>>
    /\ SyncOnly

\* service revoke_device, first await: the ledger's revoke_device answers
service_revoke_device(d) ==
    /\ revoking.pc = "idle"
    /\ devices' = revoke_device_rows(conn, devices, d)
    /\ revoking' = [pc |-> "disconnect", id |-> d, raised |-> FALSE]
    /\ revoked' = IF conn /\ d \in DOMAIN devices
                  THEN [revoked EXCEPT ![d] = "revoked"] ELSE revoked
    /\ UNCHANGED <<sync_enabled, sync_text, sync_images, links, connections,
                   client_connections, clipboard, items>>
    /\ SyncOnly

\* WebSocketClient.disconnect up to its await: close() is called on the dialed
\* connection to the device, if the dialing side's table has one
ws_client_disconnect ==
    /\ revoking.pc = "disconnect"
    /\ LET d == revoking.id IN
       IF d \in DOMAIN client_connections
       THEN /\ links' = [links EXCEPT ![client_connections[d]].state =
                            IF @ = "session" THEN "closing" ELSE @]
            /\ revoking' = [revoking EXCEPT !.pc = "del"]
       ELSE /\ revoking' = [pc |-> "idle", id |-> 0, raised |-> FALSE]
            /\ UNCHANGED links
    /\ UNCHANGED <<sync_enabled, sync_text, sync_images, connections, client_connections,
                   clipboard, revoked, items, devices>>
    /\ SyncOnly

\* WebSocketClient.disconnect after close() returned: del self._connections[id],
\* a KeyError when the loop's finally already removed the entry
ws_client_disconnect_del ==
    /\ revoking.pc = "del"
    /\ client_connections' = Drop(client_connections, revoking.id)
    /\ revoking' = [pc |-> "idle", id |-> 0,
                    raised |-> revoking.id \notin DOMAIN client_connections]
    /\ UNCHANGED <<sync_enabled, sync_text, sync_images, links, connections,
                   clipboard, revoked, items, devices>>
    /\ SyncOnly

toggle_sync(enabled) ==
    /\ sync_enabled' = enabled
    /\ UNCHANGED <<sync_text, sync_images, links, connections, client_connections,
                   clipboard, revoking, revoked, items, devices>>
    /\ SyncOnly

\* the service as its constructor leaves it (AppConfig defaults)
InitSync ==
    /\ sync_enabled = TRUE
    /\ sync_text = TRUE
    /\ sync_images = TRUE
    /\ links = [c \in Conns |-> FreeLink]
    /\ connections = << >>
    /\ client_connections = << >>
    /\ clipboard = [content |-> 0, ignore_next |-> FALSE]
    /\ revoking = [pc |-> "idle", id |-> 0, raised |-> FALSE]
    /\ revoked = [d \in DeviceIds |-> "no"]

NextSync ==
    \/ \E c \in Conns : accept(c)
    \/ \E c \in Conns, d \in DeviceIds : hello(c, d)
    \/ \E c \in Conns : not_hello(c)
    \/ \E c \in Conns, d \in DeviceIds, fp \in Fingerprints : connect_to_device(c, d, fp)
    \/ \E c \in Conns, w \in WireItems : recv_item(c, w)
    \/ \E c \in Conns : gate(c)
    \/ \E c \in Conns : store(c)
    \/ \E c \in Conns : seen(c)
    \/ \E c \in Conns : finish(c)
    \/ \E c \in Conns : close(c)
    \/ \E d \in DeviceIds, fp \in Fingerprints : complete_pairing_as_client(d, fp)
    \/ \E d \in DeviceIds : service_revoke_device(d)
    \/ ws_client_disconnect
    \/ ws_client_disconnect_del
    \/ \E enabled \in BOOLEAN : toggle_sync(enabled)

\* --------------------------------------- session tables and broadcast_item
Socks == 1..MaxSock

NoSock == [state |-> "free", dir |-> "none", peer |-> NoId]

NoBroadcast == [pc |-> "idle", hash |-> 0, todo |-> {}, snap |-> {}, tried |-> << >>,
                failed |-> {}]

\* the websockets a table holds
Registered(table) == {table[p] : p \in DOMAIN table}

\* _handle_connection: the handshake is done, our HELLO is sent, recv() awaited
on_connect(c) ==
    /\ socks[c].state = "free"
    /\ socks' = [socks EXCEPT ![c] = [NoSock EXCEPT !.state = "accepted", !.dir = "in"]]
    /\ UNCHANGED <<srv_table, cli_table, newest, bcast, cbs, items, devices, clipboard>>
    /\ BcastOnly

\* _handle_connection: the first message is a HELLO; whatever it carries as
\* device_id becomes the key of this websocket in the table
on_hello(c, d) ==
    /\ socks[c].state = "accepted"
    /\ socks' = [socks EXCEPT ![c].state = "session", ![c].peer = d]
    /\ srv_table' = Put(srv_table, d, c)
    /\ newest' = [newest EXCEPT ![d] = c]
    /\ UNCHANGED <<cli_table, bcast, cbs, items, devices, clipboard>>
    /\ BcastOnly

\* _handle_connection: the first message is no HELLO; neither the table nor the
\* loop is reached and finally finds peer_device_id None
on_not_hello(c) ==
    /\ socks[c].state = "accepted"
    /\ socks' = [socks EXCEPT ![c].state = "closed"]
    /\ UNCHANGED <<srv_table, cli_table, newest, bcast, cbs, items, devices, clipboard>>
    /\ BcastOnly

\* connect_to_device, success path: the peer's HELLO announced d
dial(c, d) ==
    /\ socks[c].state = "free"
    /\ socks' = [socks EXCEPT ![c] =
                    [NoSock EXCEPT !.state = "session", !.dir = "out", !.peer = d]]
    /\ cli_table' = Put(cli_table, d, c)
    /\ UNCHANGED <<srv_table, newest, bcast, cbs, items, devices, clipboard>>
    /\ BcastOnly

\* finally of the listening side: if peer_device_id: pop(peer_device_id, None)
srv_table_after_loop(table, d) == IF d # NoId THEN Drop(table, d) ELSE table

\* the receive loop of session c ends (peer close or I/O error) and finally runs
loop_end(c) ==
    /\ socks[c].state = "session"
    /\ socks' = [socks EXCEPT ![c].state = "closed"]
    /\ IF socks[c].dir = "in"
       THEN /\ srv_table' = srv_table_after_loop(srv_table, socks[c].peer)
            /\ UNCHANGED cli_table
       ELSE /\ cli_table' = Drop(cli_table, socks[c].peer)
            /\ UNCHANGED srv_table
    /\ UNCHANGED <<newest, bcast, cbs, items, devices, clipboard>>
    /\ BcastOnly

\* PairingWorkflow.complete_pairing_as_client for peer d
pair_peer(d, fp) ==
    /\ devices' = add_device_rows(conn, devices, d, HostDevice(fp))
    /\ UNCHANGED <<socks, srv_table, cli_table, newest, bcast, cbs, items, clipboard>>
    /\ BcastOnly

\* _on_clipboard_captured that broadcasts whatever add_item returned
BroadcastWanted_Always(added) == TRUE

\* if not added: return
BroadcastWanted(added) == added

\* broadcast_item's snapshot: list(self._connections.items()) of the server
Snapshot(table) == {[peer |-> p, sock |-> table[p]] : p \in DOMAIN table}

\* _on_clipboard_captured for a captured item (big: its size is over
\* max_item_size), up to the first send of broadcast_item
capture(item, big) ==
    /\ bcast.pc = "idle"
    /\ LET pass == /\ sync_enabled
                    /\ ~big
                    /\ ~(TypeOf(item.content_hash) = "text" /\ ~sync_text)
                    /\ ~(TypeOf(item.content_hash) = "image" /\ ~sync_images)
           added == pass /\ add_item_result(conn, items, item)
           todo == Snapshot(srv_table)
       IN  /\ items' = IF pass THEN add_item_rows(conn, items, item) ELSE items
           /\ bcast' = IF pass /\ BroadcastWanted(added)
                        THEN [pc |-> IF todo = {} THEN "done" ELSE "sending",
                              hash |-> item.content_hash, todo |-> todo,
                              snap |-> {e.sock : e \in todo}, tried |-> << >>,
                              failed |-> {}]
                        ELSE bcast
           /\ cbs' = [path |-> "capture", big |-> big,
                      outcome |-> IF ~pass THEN "rejected"
                                  ELSE IF added THEN "accepted" ELSE "duplicate"]
    /\ UNCHANGED <<socks, srv_table, cli_table, newest, devices, clipboard>>
    /\ BcastOnly

\* a loop that gives up at the first send that raises
AfterFailedSend_Abort(todo, e) == {}

\* except Exception: print(...), and the for loop goes on
AfterFailedSend(todo, e) == todo \ {e}

\* one turn of broadcast_item's loop: await ws.send(...) on a snapshot entry;
\* send raises when that websocket has been closed since
bcast_send(e) ==
    /\ bcast.pc = "sending"
    /\ e \in bcast.todo
    /\ LET ok == socks[e.sock].state = "session"
           left == IF ok THEN bcast.todo \ {e} ELSE AfterFailedSend(bcast.todo, e)
       IN  bcast' = [bcast EXCEPT !.todo = left,
                                  !.tried = Append(@, e.sock),
                                  !.failed = IF ok THEN @ ELSE @ \cup {e.sock},
                                  !.pc = IF left = {} THEN "done" ELSE "sending"]
    /\ UNCHANGED <<socks, srv_table, cli_table, newest, cbs, items, devices, clipboard>>
    /\ BcastOnly

\* broadcast_item returns to _on_clipboard_captured, which returns
bcast_return ==
    /\ bcast.pc = "done"
    /\ bcast' = NoBroadcast
    /\ UNCHANGED <<socks, srv_table, cli_table, newest, cbs, items, devices, clipboard>>
    /\ BcastOnly

\* the loop of session c receives a CLIPBOARD_ITEM: _on_item_received, whole;
\* big says that item.size exceeds config.max_item_size, which it never reads
rx_item(c, item, big) ==
    /\ socks[c].state = "session"
    /\ LET p == socks[c].peer
           type == TypeOf(item.content_hash)
           outcome ==
               IF ~sync_enabled THEN "disabled"
               ELSE IF ~TrustedDevice(conn, devices, p) THEN "untrusted"
               ELSE IF \/ type = "text" /\ ~sync_text
                       \/ type = "image" /\ ~sync_images THEN "filtered"
               ELSE IF ~add_item_result(conn, items, item) THEN "duplicate"
               ELSE "accepted"
       IN  /\ items' = IF outcome \in {"duplicate", "accepted"}
                        THEN add_item_rows(conn, items, item) ELSE items
           /\ devices' = IF outcome = "accepted"
                          THEN update_device_last_seen_rows(conn, devices, p, "seen")
                          ELSE devices
           /\ clipboard' = IF outcome = "accepted" /\ type = "text"
                            THEN [content |-> item.content_hash, ignore_next |-> TRUE]
                            ELSE clipboard
           /\ cbs' = [path |-> "receipt", big |-> big, outcome |-> outcome]
    /\ UNCHANGED <<socks, srv_table, cli_table, newest, bcast>>
    /\ BcastOnly

InitBroadcast ==
    /\ socks = [c \in Socks |-> NoSock]
    /\ srv_table = << >>
    /\ cli_table = << >>
    /\ newest = [d \in HelloIds |-> 0]
    /\ bcast = NoBroadcast
    /\ cbs = [path |-> "none", big |-> FALSE, outcome |-> "none"]

\* (receipts here are of items within max_item_size; NextPolicy has the others)
NextBroadcast ==
    \/ \E c \in Socks : on_connect(c)
    \/ \E c \in Socks, d \in HelloIds : on_hello(c, d)
    \/ \E c \in Socks : on_not_hello(c)
    \/ \E c \in Socks, d \in HelloIds : dial(c, d)
    \/ \E c \in Socks : loop_end(c)
    \/ \E d \in PeerIds, fp \in Fingerprints : pair_peer(d, fp)
    \/ \E item \in ClipboardItem, big \in BOOLEAN : capture(item, big)
    \/ \E e \in bcast.todo : bcast_send(e)
    \/ bcast_return
    \/ \E c \in Socks, item \in ClipboardItem : rx_item(c, item, FALSE)

\* ------------------------------------------- a mesh of paired devices
\* Every device runs the service with sync enabled and holds a trusted Device
\* record for every other one. Captured items get fresh uuid4 ids, so a ledger
\* is the set of content hashes it holds. Payloads are texts.
Nodes == 1..MaxNode
Payloads == 1..MaxPayload
Pairs == {pr \in Nodes \X Nodes : pr[1] # pr[2]}

NoNode == [stored |-> {}, content |-> 0, ignore_next |-> FALSE, last_hash |-> 0]

\* a ledger that accepts a content_hash it already holds
mesh_add_item_result_NoUnique(stored, h) == TRUE

\* add_item on the ledger of one device: True unless the hash is stored
mesh_add_item_result(stored, h) == h \notin stored

\* the sessions broadcast_item of device n sends on: those in the table of its
\* WebSocketServer, that is the devices that dialed n
ServerPeers(n) == {a \in Nodes : <<a, n>> \in dialed}

\* device a dials device b: connect_to_device and the HELLO exchange succeed
mesh_dial(a, b) ==
    /\ a # b
    /\ <<a, b>> \notin dialed
    /\ dialed' = dialed \cup {<<a, b>>}
    /\ UNCHANGED <<nodes, wire, copies, accepts, bcasts>>
    /\ MeshOnly

\* the user of device n copies payload h
user_copy(n, h) ==
    /\ copies < MaxCopies
    /\ copies' = copies + 1
    /\ nodes' = [nodes EXCEPT ![n].content = h]
    /\ UNCHANGED <<dialed, wire, accepts, bcasts>>
    /\ MeshOnly

\* _process_clipboard on device n (change signal or poll), with _capture_text,
\* _on_clipboard_captured and broadcast_item when it gets that far
process_clipboard(n) ==
    LET nd == nodes[n]
        h == nd.content
    IN  /\ IF nd.ignore_next
           THEN /\ nodes' = [nodes EXCEPT ![n].ignore_next = FALSE]
                /\ UNCHANGED <<wire, accepts, bcasts>>
           ELSE IF h = 0 \/ h = nd.last_hash
           THEN UNCHANGED <<nodes, wire, accepts, bcasts>>
           ELSE IF ~mesh_add_item_result(nd.stored, h)
           THEN /\ nodes' = [nodes EXCEPT ![n].last_hash = h]
                /\ UNCHANGED <<wire, accepts, bcasts>>
           ELSE /\ \A a \in ServerPeers(n) : Len(wire[<<n, a>>]) < MaxWire
                /\ nodes' = [nodes EXCEPT ![n].last_hash = h,
                                          ![n].stored = @ \cup {h}]
                /\ wire' = [pr \in Pairs |->
                               IF pr[1] = n /\ pr[2] \in ServerPeers(n)
                               THEN Append(wire[pr], h) ELSE wire[pr]]
                /\ accepts' = [accepts EXCEPT ![n][h] = IF @ < 2 THEN @ + 1 ELSE @]
                /\ bcasts' = [bcasts EXCEPT ![n][h] = IF @ < 2 THEN @ + 1 ELSE @]
        /\ UNCHANGED <<dialed, copies>>
        /\ MeshOnly

\* device dst receives the oldest CLIPBOARD_ITEM in flight from src:
\* _on_item_received stores it unless the hash is stored, and writes an accepted
\* text to the clipboard under _ignore_next; it sends nothing on
mesh_deliver(src, dst) ==
    /\ wire[<<src, dst>>] # << >>
    /\ LET h == Head(wire[<<src, dst>>])
           added == mesh_add_item_result(nodes[dst].stored, h)
       IN  /\ nodes' = IF added
                        THEN [nodes EXCEPT ![dst].stored = @ \cup {h},
                                           ![dst].content = h,
                                           ![dst].ignore_next = TRUE]
                        ELSE nodes
           /\ accepts' = IF added
                          THEN [accepts EXCEPT ![dst][h] = IF @ < 2 THEN @ + 1 ELSE @]
                          ELSE accepts
    /\ wire' = [wire EXCEPT ![<<src, dst>>] = Tail(@)]
    /\ UNCHANGED <<dialed, copies, bcasts>>
    /\ MeshOnly

InitMesh ==
    /\ nodes = [n \in Nodes |-> NoNode]
    /\ dialed = {}
    /\ wire = [pr \in Pairs |-> << >>]
    /\ copies = 0
    /\ accepts = [n \in Nodes |-> [h \in Payloads |-> 0]]
    /\ bcasts = [n \in Nodes |-> [h \in Payloads |-> 0]]

NextMesh ==
    \/ \E a, b \in Nodes : mesh_dial(a, b)
    \/ \E n \in Nodes, h \in Payloads : user_copy(n, h)
    \/ \E n \in Nodes : process_clipboard(n)
    \/ \E pr \in Pairs : mesh_deliver(pr[1], pr[2])

\* ------------------------------------ transport: handshakes and receive loops
\* the first message read on a new connection: a HELLO announcing device_id (NoId
\* when the key is missing), another well-formed message, or none at all (recv
\* raises, or the text is no JSON object)
FirstMessages ==
    {[type |-> "hello", device_id |-> d] : d \in HelloIds}
        \cup {[type |-> "other", device_id |-> NoId], [type |-> "error", device_id |-> NoId]}

\* what ends or disturbs a receive loop: text that is no JSON, a CLIPBOARD_ITEM
\* without a required field, the connection failing or the peer closing
Faults == {"bad_json", "bad_item", "io_error"}

NoWs == [role |-> "none", pc |-> "free", first |-> "none", peer |-> NoId,
         returned |-> FALSE, result |-> NoId, task |-> FALSE, item |-> 0,
         called |-> FALSE, out |-> NoMessage, fault |-> "none"]

\* both handshakes with the test of the message type left out
Promotes_AnyMessage(m) == m.type \in {"hello", "other"}

\* data.get("type") == Message.HELLO
Promotes(m) == m.type = "hello"

\* _handle_connection up to its recv(): our HELLO is sent, or the send raises and
\* the handler ends through finally with peer_device_id None
srv_accept(c, sent) ==
    /\ ws[c].pc = "free"
    /\ ws' = [ws EXCEPT ![c] =
                 IF sent
                 THEN [NoWs EXCEPT !.role = "server", !.pc = "greeted",
                                   !.out = [type |-> "hello", ref |-> 0]]
                 ELSE [NoWs EXCEPT !.role = "server", !.pc = "ended"]]
    /\ UNCHANGED <<srv_conns, cli_conns>>
    /\ TransportOnly

\* _handle_connection: the first message arrives; a HELLO registers the websocket
\* under its device_id and enters the loop, anything else ends the handler
srv_first(c, m) ==
    /\ ws[c].role = "server"
    /\ ws[c].pc = "greeted"
    /\ IF Promotes(m)
       THEN /\ ws' = [ws EXCEPT ![c].pc = "loop", ![c].first = m.type,
                                ![c].peer = m.device_id]
            /\ srv_conns' = Put(srv_conns, m.device_id, c)
       ELSE /\ ws' = [ws EXCEPT ![c].pc = "ended", ![c].first = m.type]
            /\ UNCHANGED srv_conns
    /\ UNCHANGED cli_conns
    /\ TransportOnly

\* WebSocketClient.connect_to_device up to its recv(): connect() returns a
\* websocket, or raises (refused, TLS failure) and None is returned
cli_connect(c, ok) ==
    /\ ws[c].pc = "free"
    /\ ws' = [ws EXCEPT ![c] =
                 IF ok
                 THEN [NoWs EXCEPT !.role = "client", !.pc = "connected"]
                 ELSE [NoWs EXCEPT !.role = "client", !.pc = "ended", !.returned = TRUE]]
    /\ UNCHANGED <<srv_conns, cli_conns>>
    /\ TransportOnly

\* connect_to_device from its recv() to its return: after a HELLO ours is sent,
\* the websocket registered under data.get("device_id"), the loop task created and
\* that id returned; a send that raises, or a first message that is no HELLO,
\* returns None
cli_first(c, m, sent) ==
    /\ ws[c].role = "client"
    /\ ws[c].pc = "connected"
    /\ IF Promotes(m) /\ sent
       THEN /\ ws' = [ws EXCEPT ![c].pc = "loop", ![c].first = m.type,
                                ![c].peer = m.device_id, ![c].returned = TRUE,
                                ![c].result = m.device_id, ![c].task = TRUE,
                                ![c].out = [type |-> "hello", ref |-> 0]]
            /\ cli_conns' = Put(cli_conns, m.device_id, c)
       ELSE /\ ws' = [ws EXCEPT ![c].pc = "ended", ![c].first = m.type,
                                ![c].peer = IF Promotes(m) THEN m.device_id ELSE NoId,
                                ![c].returned = TRUE]
            /\ UNCHANGED cli_conns
    /\ UNCHANGED srv_conns
    /\ TransportOnly

\* a receive loop takes a well-formed CLIPBOARD_ITEM: _handle_clipboard_item
\* decodes it and awaits on_item_received(item, peer_device_id)
ws_item(c, i) ==
    /\ ws[c].pc = "loop"
    /\ ws' = [ws EXCEPT ![c].pc = "cb", ![c].item = i, ![c].called = TRUE]
    /\ UNCHANGED <<srv_conns, cli_conns>>
    /\ TransportOnly

\* the receive callback returns. The listening side sends the ACK on
\* self._connections[peer_device_id] (a KeyError is caught by _handle_message);
\* the dialing side's _handle_clipboard_item ends there
ws_cb_return(c) ==
    /\ ws[c].pc = "cb"
    /\ LET p == ws[c].peer
           acked == ws[c].role = "server" /\ p \in DOMAIN srv_conns
       IN  ws' = [x \in Conns |->
                    [ws[x] EXCEPT
                       !.pc = IF x = c THEN "loop" ELSE @,
                       !.item = IF x = c THEN 0 ELSE @,
                       !.out = IF acked /\ x = srv_conns[p]
                               THEN [type |-> "ack", ref |-> ws[c].item] ELSE @]]
    /\ UNCHANGED <<srv_conns, cli_conns>>
    /\ TransportOnly

\* a receive loop meets a fault. The listening side's _handle_message catches what
\* decoding raises and the loop goes on; the connection failing ends the loop and
\* finally pops a truthy peer id. On the dialing side every fault leaves the loop
\* and finally pops the peer id
ws_fault(c, f) ==
    /\ ws[c].pc = "loop"
    /\ IF ws[c].role = "server"
       THEN IF f = "io_error"
            THEN /\ ws' = [ws EXCEPT ![c].pc = "ended", ![c].fault = f]
                 /\ srv_conns' = srv_table_after_loop(srv_conns, ws[c].peer)
            ELSE /\ ws' = [ws EXCEPT ![c].fault = f]
                 /\ UNCHANGED srv_conns
       ELSE /\ ws' = [ws EXCEPT ![c].pc = "ended", ![c].fault = f, ![c].task = FALSE]
            /\ UNCHANGED srv_conns
    /\ cli_conns' = IF ws[c].role = "client" THEN Drop(cli_conns, ws[c].peer) ELSE cli_conns
    /\ TransportOnly

InitTransport ==
    /\ ws = [c \in Conns |-> NoWs]
    /\ srv_conns = << >>
    /\ cli_conns = << >>

NextTransport ==
    \/ \E c \in Conns, sent \in BOOLEAN : srv_accept(c, sent)
    \/ \E c \in Conns, m \in FirstMessages : srv_first(c, m)
    \/ \E c \in Conns, ok \in BOOLEAN : cli_connect(c, ok)
    \/ \E c \in Conns, m \in FirstMessages, sent \in BOOLEAN : cli_first(c, m, sent)
    \/ \E c \in Conns, i \in ItemIds : ws_item(c, i)
    \/ \E c \in Conns : ws_cb_return(c)
    \/ \E c \in Conns, f \in Faults : ws_fault(c, f)

\* ------------------------------------------------------- clipboard monitor
NoCallback == [hash |-> 0, written_back |-> FALSE]

\* a _process_clipboard without the test of _ignore_next
process_skips_Never(ignore_next) == FALSE

\* if self._ignore_next: self._ignore_next = False; return
process_skips(ignore_next) == ignore_next

\* _process_clipboard and _capture_text on monitor state m: the monitor after
\* the call, and the callback record when the callback is invoked
process_monitor(m) ==
    IF process_skips(m.ignore_next) THEN [m EXCEPT !.ignore_next = FALSE]
    ELSE IF m.content = 0 \/ m.content = m.last_hash THEN m
    ELSE [m EXCEPT !.last_hash = m.content]

process_callback(m, cb) ==
    IF ~process_skips(m.ignore_next) /\ m.content # 0 /\ m.content # m.last_hash
    THEN [hash |-> m.content, written_back |-> m.written]
    ELSE cb

\* ClipboardMonitor.start: the clipboard is fetched, the signal connected and the
\* poll task created
monitor_start ==
    /\ monitor.watching # "on"
    /\ monitor' = [monitor EXCEPT !.watching = "on"]
    /\ UNCHANGED callback
    /\ MonitorOnly

\* ClipboardMonitor.stop: the signal is disconnected and the poll task cancelled;
\* tasks already created by the signal stay
monitor_stop ==
    /\ monitor.watching = "on"
    /\ monitor' = [monitor EXCEPT !.watching = "off"]
    /\ UNCHANGED callback
    /\ MonitorOnly

\* the user copies something: the clipboard changes and, while the signal is
\* connected, dataChanged creates a task
copy_text(h) ==
    /\ monitor.watching = "on" => monitor.tasks < MaxSignal
    /\ monitor' = [monitor EXCEPT !.content = h, !.written = FALSE,
                                  !.tasks = IF monitor.watching = "on" THEN @ + 1 ELSE @]
    /\ UNCHANGED callback
    /\ MonitorOnly

\* set_clipboard_text(text) for an accepted item: _ignore_next = True, then, if
\* self._clipboard is set, setText, on which a connected signal creates a task
set_clipboard_text(h) ==
    /\ monitor.watching = "on" => monitor.tasks < MaxSignal
    /\ monitor' = IF monitor.watching = "new"
                  THEN [monitor EXCEPT !.ignore_next = TRUE]
                  ELSE [monitor EXCEPT !.ignore_next = TRUE, !.content = h,
                                       !.written = TRUE,
                                       !.tasks = IF monitor.watching = "on"
                                                 THEN @ + 1 ELSE @]
    /\ UNCHANGED callback
    /\ MonitorOnly

\* set_clipboard_image(image_path): the same with setImage
set_clipboard_image(h) ==
    /\ monitor.watching = "on" => monitor.tasks < MaxSignal
    /\ monitor' = IF monitor.watching = "new"
                  THEN [monitor EXCEPT !.ignore_next = TRUE]
                  ELSE [monitor EXCEPT !.ignore_next = TRUE, !.content = h,
                                       !.written = TRUE,
                                       !.tasks = IF monitor.watching = "on"
                                                 THEN @ + 1 ELSE @]
    /\ UNCHANGED callback
    /\ MonitorOnly

\* a task created by _on_clipboard_changed runs _process_clipboard
on_clipboard_changed ==
    /\ monitor.tasks > 0
    /\ monitor' = [process_monitor(monitor) EXCEPT !.tasks = @ - 1]
    /\ callback' = process_callback(monitor, callback)
    /\ MonitorOnly

\* _poll_clipboard wakes from its sleep and runs _process_clipboard
poll_clipboard ==
    /\ monitor.watching = "on"
    /\ monitor' = process_monitor(monitor)
    /\ callback' = process_callback(monitor, callback)
    /\ MonitorOnly

\* texts are the payloads that set_clipboard_text is called with
TextPayloads == {h \in Payloads : TypeOf(h) = "text"}

InitMonitor ==
    /\ monitor = [watching |-> "new", content |-> 0, written |-> FALSE,
                  ignore_next |-> FALSE, last_hash |-> 0, tasks |-> 0]
    /\ callback = NoCallback

NextMonitor ==
    \/ monitor_start
    \/ monitor_stop
    \/ \E h \in Payloads : copy_text(h)
    \/ \E h \in TextPayloads : set_clipboard_text(h)
    \/ \E h \in Payloads \ TextPayloads : set_clipboard_image(h)
    \/ on_clipboard_changed
    \/ poll_clipboard

\* ----------------------------------------------------------------- identity
Certs == 1..MaxCert
\* a file that is not there, and one whose content does not parse as PEM
Absent == 0
Corrupt == -1

\* Path.exists()
Exists(f) == f # Absent

\* SecurityManager.initialize. Both files there: load_certificate, then
\* load_private_key, then the fingerprint; a file that does not parse raises and
\* what was assigned before stays. Otherwise generate_self_signed_cert writes a
\* new certificate and key over whatever is there
initialize ==
    /\ IF Exists(cert_file) /\ Exists(key_file)
       THEN /\ identity' =
                 IF cert_file = Corrupt THEN [identity EXCEPT !.last = "error"]
                 ELSE IF key_file = Corrupt
                 THEN [identity EXCEPT !.certificate = cert_file, !.last = "error"]
                 ELSE [certificate |-> cert_file, private_key |-> key_file,
                       fingerprint |-> cert_file, last |-> "loaded"]
            /\ UNCHANGED <<cert_file, key_file, generated>>
       ELSE /\ generated < MaxCert
            /\ generated' = generated + 1
            /\ cert_file' = generated + 1
            /\ key_file' = generated + 1
            /\ identity' = [certificate |-> generated + 1, private_key |-> generated + 1,
                            fingerprint |-> generated + 1, last |-> "generated"]
    /\ IdentityOnly

\* between two runs a persisted file is lost
lose_file(which) ==
    /\ IF which = "cert"
       THEN Exists(cert_file) /\ cert_file' = Absent /\ UNCHANGED key_file
       ELSE Exists(key_file) /\ key_file' = Absent /\ UNCHANGED cert_file
    /\ UNCHANGED <<identity, generated>>
    /\ IdentityOnly

\* between two runs a persisted file is damaged
damage_file(which) ==
    /\ IF which = "cert"
       THEN cert_file \in Certs /\ cert_file' = Corrupt /\ UNCHANGED key_file
       ELSE key_file \in Certs /\ key_file' = Corrupt /\ UNCHANGED cert_file
    /\ UNCHANGED <<identity, generated>>
    /\ IdentityOnly

\* between two runs a file is put back from a copy of an earlier certificate
restore_file(which, k) ==
    /\ k <= generated
    /\ IF which = "cert"
       THEN cert_file # k /\ cert_file' = k /\ UNCHANGED key_file
       ELSE key_file # k /\ key_file' = k /\ UNCHANGED cert_file
    /\ UNCHANGED <<identity, generated>>
    /\ IdentityOnly

\* the process ends and a new SecurityManager is constructed
restart ==
    /\ identity' = [certificate |-> 0, private_key |-> 0, fingerprint |-> 0,
                    last |-> "none"]
    /\ UNCHANGED <<cert_file, key_file, generated>>
    /\ IdentityOnly

InitIdentity ==
    /\ cert_file = Absent
    /\ key_file = Absent
    /\ identity = [certificate |-> 0, private_key |-> 0, fingerprint |-> 0,
                   last |-> "none"]
    /\ generated = 0

NextIdentity ==
    \/ initialize
    \/ \E which \in {"cert", "key"} : lose_file(which)
    \/ \E which \in {"cert", "key"} : damage_file(which)
    \/ \E which \in {"cert", "key"}, k \in Certs : restore_file(which, k)
    \/ restart

\* ------------------------------------------------- service start and stop
NoService == [state |-> "new", listening |-> FALSE, poll |-> "none", sweep |-> "none"]

\* ClipboardSyncService.start: the ledger is connected, the sweep and the poll
\* tasks are created, the listening socket is opened and the client constructed
service_start ==
    /\ service.state = "new"
    /\ service' = [state |-> "running", listening |-> TRUE, poll |-> "running",
                   sweep |-> "running"]
    /\ conn' = TRUE
    /\ UNCHANGED <<ws, srv_conns>>
    /\ StopOnly

\* stop() up to its first await: clipboard_monitor.stop() and
\* pairing_manager.stop() cancel the poll and the sweep
stop_tasks ==
    /\ service.state = "running"
    /\ service' = [service EXCEPT !.state = "stopping", !.poll = "cancelled",
                                  !.sweep = "cancelled"]
    /\ UNCHANGED <<conn, ws, srv_conns>>
    /\ StopOnly

\* ws_server.stop(): close() stops accepting and closes the accepted connections,
\* wait_closed() returns when their handlers have ended, each through its finally
\* (a handler inside the receive callback ends after the callback)
stop_server ==
    /\ service.state = "stopping"
    /\ \A c \in Conns : ws[c].role = "server" => ws[c].pc # "cb"
    /\ service' = [service EXCEPT !.state = "closed", !.listening = FALSE]
    /\ ws' = [c \in Conns |->
                 IF ws[c].role = "server" /\ ws[c].pc \in {"greeted", "loop"}
                 THEN [ws[c] EXCEPT !.pc = "ended"] ELSE ws[c]]
    /\ srv_conns' = [d \in DOMAIN srv_conns \cap {NoId} |-> srv_conns[d]]
    /\ UNCHANGED conn
    /\ StopOnly

\* the rest of stop(): database.disconnect() and _running = False; ws_client is
\* not touched
stop_finish ==
    /\ service.state = "closed"
    /\ service' = [service EXCEPT !.state = "stopped"]
    /\ conn' = FALSE
    /\ UNCHANGED <<ws, srv_conns>>
    /\ StopOnly

\* the listening socket accepts a connection
listener_accept(c, sent) == service.listening /\ srv_accept(c, sent)

\* service connect_to_device: None unless ws_client is set, which it is from
\* start() on
service_connect_to_device(c, ok) == service.state # "new" /\ cli_connect(c, ok)

InitStop == service = NoService

NextStop ==
    \/ service_start
    \/ stop_tasks
    \/ stop_server
    \/ stop_finish
    \/ \E c \in Conns, sent \in BOOLEAN : listener_accept(c, sent)
    \/ \E c \in Conns, ok \in BOOLEAN : service_connect_to_device(c, ok)
    \/ \E c \in Conns, m \in FirstMessages : srv_first(c, m)
    \/ \E c \in Conns, m \in FirstMessages, sent \in BOOLEAN : cli_first(c, m, sent)
    \/ \E c \in Conns, i \in ItemIds : ws_item(c, i)
    \/ \E c \in Conns : ws_cb_return(c)
    \/ \E c \in Conns, f \in Faults : ws_fault(c, f)

\* ------------------------------------------ replies of the listening side
NoReply == [type |-> "none", from |-> 0, on |-> 0, error |-> "none"]

\* self._connections[peer_device_id]: the websocket now registered for the
\* peer id (0 stands for the KeyError of a missing key)
ReplySocket(table, p, c) == IF p \in DOMAIN table THEN table[p] ELSE 0

\* await self._connections[peer_device_id].send(...) for a request that came
\* on c; delivered says that the network takes the frame
Reply(type, c, delivered) ==
    LET to == ReplySocket(srv_table, socks[c].peer, c) IN
    [type |-> type, from |-> c,
     on |-> IF to # 0 /\ socks[to].state = "session" /\ delivered THEN to ELSE 0,
     error |-> IF to = 0 THEN "KeyError"
               ELSE IF socks[to].state = "session" /\ delivered THEN "none"
               ELSE "send"]

\* _handle_message on session c: a PING, answered at once
srv_ping(c, delivered) ==
    /\ socks[c].state = "session"
    /\ socks[c].dir = "in"
    /\ pending[c] = 0
    /\ reply' = Reply("pong", c, delivered)
    /\ UNCHANGED pending
    /\ ReplyOnly

\* _handle_clipboard_item on session c up to 'await self.on_item_received(...)'
srv_item(c, i) ==
    /\ socks[c].state = "session"
    /\ socks[c].dir = "in"
    /\ pending[c] = 0
    /\ pending' = [pending EXCEPT ![c] = i]
    /\ UNCHANGED reply
    /\ ReplyOnly

\* the callback has returned: the ACK is sent
srv_ack(c, delivered) ==
    /\ pending[c] # 0
    /\ pending' = [pending EXCEPT ![c] = 0]
    /\ reply' = Reply("ack", c, delivered)
    /\ ReplyOnly

\* the receive loop of c ends; it is not inside a callback then
session_end(c) == pending[c] = 0 /\ loop_end(c)

InitReply ==
    /\ pending = [c \in Socks |-> 0]
    /\ reply = NoReply

NextReply ==
    \/ \E c \in Socks : on_connect(c)
    \/ \E c \in Socks, d \in HelloIds : on_hello(c, d)
    \/ \E c \in Socks : session_end(c)
    \/ \E c \in Socks, delivered \in BOOLEAN : srv_ping(c, delivered)
    \/ \E c \in Socks, i \in ItemIds : srv_item(c, i)
    \/ \E c \in Socks, delivered \in BOOLEAN : srv_ack(c, delivered)

\* every part added after the mesh, as its constructor leaves it
InitLater == InitTransport /\ InitMonitor /\ InitIdentity /\ InitStop /\ InitReply

\* ------------------------------------------------ policy of the callbacks
\* a service started from any config file: sync_text and sync_images as loaded
InitPolicy ==
    /\ conn = TRUE
    /\ items = {}
    /\ devices = << >>
    /\ ret = NoReturn
    /\ everAccepted = {}
    /\ reaccepted = FALSE
    /\ acceptedSinceClear = [h \in Hashes |-> 0]
    /\ InitPairing
    /\ InitRace
    /\ sync_enabled = TRUE
    /\ sync_text \in BOOLEAN
    /\ sync_images \in BOOLEAN
    /\ links = [c \in Conns |-> FreeLink]
    /\ connections = << >>
    /\ client_connections = << >>
    /\ clipboard = [content |-> 0, ignore_next |-> FALSE]
    /\ revoking = [pc |-> "idle", id |-> 0, raised |-> FALSE]
    /\ revoked = [d \in DeviceIds |-> "no"]
    /\ InitHost
    /\ InitBroadcast
    /\ InitMesh
    /\ InitLater

\* captures and receipts over inbound sessions of paired and unpaired peers
NextPolicy ==
    \/ \E c \in Socks : on_connect(c)
    \/ \E c \in Socks, d \in HelloIds : on_hello(c, d)
    \/ \E d \in PeerIds, fp \in Fingerprints : pair_peer(d, fp)
    \/ \E item \in ClipboardItem, big \in BOOLEAN : capture(item, big)
    \/ \E e \in bcast.todo : bcast_send(e)
    \/ bcast_return
    \/ \E c \in Socks, item \in ClipboardItem, big \in BOOLEAN : rx_item(c, item, big)

\* ------------------------------------------- the id-to-fingerprint binding
\* fingerprints of the certificates a peer can present when it pairs
PeerFingerprints == 1..MaxPeerCert

\* the Device rows a caller of add_device can build from them
PairingDevice == [certificate_fingerprint : PeerFingerprints, is_trusted : BOOLEAN,
                  last_seen_timestamp : SeenTimes]

\* every writer of the devices table, over peers that present any certificate
NextBinding ==
    \/ connect
    \/ disconnect
    \/ \E d \in PeerIds, device \in PairingDevice : add_device(d, device)
    \/ \E d \in DeviceIds, fp \in PeerFingerprints : complete_pairing_as_client(d, fp)
    \/ \E d \in PeerIds : update_device_last_seen(d, "seen")
    \/ \E d \in PeerIds : revoke_device(d)

\* ---------------------------------------------------------- specifications
\* every component as its constructor leaves it
Init == InitLedger /\ InitPairing /\ InitRace /\ InitSync /\ InitHost /\ InitBroadcast
           /\ InitMesh /\ InitLater

\* the same after ClipboardDatabase.connect() on a fresh file
InitConnected ==
    /\ conn = TRUE
    /\ items = {}
    /\ devices = << >>
    /\ ret = NoReturn
    /\ everAccepted = {}
    /\ reaccepted = FALSE
    /\ acceptedSinceClear = [h \in Hashes |-> 0]
    /\ InitPairing
    /\ InitRace
    /\ InitSync
    /\ InitHost
    /\ InitBroadcast
    /\ InitMesh
    /\ InitLater

SpecLedger == Init /\ [][NextLedger]_vars

SpecPairing == Init /\ [][NextPairing]_vars

\* PairingManager with get_active_tokens among its calls
SpecTokens == Init /\ [][NextTokens]_vars

\* PairingWorkflow over the PairingManager and the ledger, from construction
SpecPairHost == Init /\ [][NextPairHost]_vars

SpecAddRace == InitConnected /\ [][NextRace]_vars

\* the running service: start() has connected the ledger
SpecSync == InitConnected /\ [][NextSync]_vars

\* the running service with several sessions: capture, receipt, broadcast
SpecBroadcast == InitConnected /\ [][NextBroadcast]_vars

\* the mesh; the event loop keeps running the clipboard poll and every
\* session's receive loop
SpecMesh ==
    /\ InitConnected
    /\ [][NextMesh]_vars
    /\ \A n \in Nodes : WF_vars(process_clipboard(n))
    /\ \A pr \in Pairs : WF_vars(mesh_deliver(pr[1], pr[2]))

\* the orchestrator's callbacks under every type policy
SpecPolicy == InitPolicy /\ [][NextPolicy]_vars

\* ClipboardMonitor from its construction
SpecMonitor == InitConnected /\ [][NextMonitor]_vars

\* SecurityManager over its two persisted files, across restarts
SpecIdentity == Init /\ [][NextIdentity]_vars

\* the service from construction through start() to the end of stop()
SpecStop == Init /\ [][NextStop]_vars

\* the transport of a started service
SpecTransport == InitConnected /\ [][NextTransport]_vars

\* the devices table from construction
SpecBinding == Init /\ [][NextBinding]_vars

\* inbound sessions of a started service and the replies to their requests
SpecReply == InitConnected /\ [][NextReply]_vars

\* ================================================================== claims
\* ------------------------------------------------------------- SpecLedger

\* C1 (as claimed): on a connected ledger, add_item of an item whose content_hash
\* has no stored row returns True and stores the item; add_item of an item whose
\* content_hash has a stored row returns False and leaves that row as it was.
C1_FirstAddAccepted ==
    [][\A item \in ClipboardItem :
         (conn /\ add_item(item)) =>
            IF RowsWithHash(items, item.content_hash) = {}
            THEN ret'.val = "true" /\ item \in items'
            ELSE /\ ret'.val = "false"
                 /\ RowsWithHash(items', item.content_hash)
                      = RowsWithHash(items, item.content_hash)]_vars

\* C2 (as claimed): over the whole history of the ledger, add_item returns True
\* at most once per content_hash.
C2_AcceptedOnceEver == ~reaccepted

\* C2 (amended): between two clear_clipboard_history calls, add_item returns
\* True at most once per content_hash.
C2_AcceptedOncePerClear == \A h \in Hashes : acceptedSinceClear[h] <= 1

\* C2 witness: a hash was accepted, cleared, accepted again, and a further
\* add_item of that hash has just been refused.
C2_Witness ==
    \E h \in Hashes :
        /\ reaccepted
        /\ acceptedSinceClear[h] = 1
        /\ ret = [val |-> "false", hash |-> h]

\* C3: no two stored clipboard items have the same content_hash.
C3_ContentHashUnique ==
    \A a, b \in items : a.content_hash = b.content_hash => a = b

\* C3 witness: a connected ledger holding two rows has just refused an item
\* whose content_hash is stored.
C3_Witness ==
    /\ conn
    /\ Cardinality(items) = 2
    /\ ret.val = "false"
    /\ RowsWithHash(items, ret.hash) # {}

\* ------------------------------------------------------------ SpecAddRace

\* C4 (as claimed): when add_item calls that were in flight together have all
\* returned, among the calls that carried one content_hash exactly one returned
\* True; so calls that carried distinct content hashes all returned True.
C4_ConcurrentAdds ==
    (raced /\ \A t \in Tasks : addTasks[t].pc = "done") =>
        \A t \in Tasks :
            Cardinality({u \in Tasks :
                            /\ addTasks[u].item.content_hash = addTasks[t].item.content_hash
                            /\ addTasks[u].result}) = 1

\* --------------------------------------------------------------- SpecSync
NoItemSent == \A x \in Conns : links'[x].out = links[x].out \/ links'[x].out.type # "item"

\* C5: an _on_item_received call that finds no Device record for the peer id, or
\* one with is_trusted = false, ends there: no row is added, last_seen is not
\* updated, the clipboard is not written and no item is sent to any session.
C5_TrustGate ==
    [][\A c \in Conns :
         /\ (gate(c) /\ ~(links[c].peer \in DOMAIN devices
                           /\ devices[links[c].peer].is_trusted)) =>
               /\ links'[c].cb.pc = "finish"
               /\ links'[c].cb.outcome = "untrusted"
               /\ UNCHANGED <<items, devices, clipboard>>
               /\ \A x \in Conns : links'[x].out = links[x].out
         /\ (finish(c) /\ links[c].cb.outcome = "untrusted") =>
               /\ UNCHANGED <<items, devices, clipboard>>
               /\ NoItemSent]_vars

\* C5 witness: the call for an item from a device whose record is there but not
\* trusted has been dropped at the gate.
C5_Witness ==
    \E c \in Conns :
        /\ links[c].cb.pc = "finish"
        /\ links[c].cb.outcome = "untrusted"
        /\ links[c].peer \in DOMAIN devices
        /\ ~devices[links[c].peer].is_trusted

\* what the ledger's revoke_device(d) does to the tables
RevokeEffect(d) ==
    /\ items' = items
    /\ DOMAIN devices' = DOMAIN devices
    /\ \A x \in DOMAIN devices :
          IF x = d
          THEN devices'[x] = [devices[x] EXCEPT !.is_trusted = FALSE]
          ELSE devices'[x] = devices[x]

C7_FingerprintAuthorizes ==
    [][\A c \in Conns :
         (store(c) /\ items' # items) =>
            /\ links[c].peer \in DOMAIN devices
            /\ links[c].cert = devices[links[c].peer].certificate_fingerprint]_vars

\* ------------------------------------------------------------ SpecPairing

\* C8: an issued PairingToken is consumed at most once: consume_token returns
\* True at most once for it, whatever generate_token, validate_token,
\* consume_token and sweep steps surround it.
C8_ConsumedAtMostOnce == \A n \in Serials : consumed[n] <= 1

\* C8 witness: a consumed token has just been presented to consume_token again,
\* which returned False.
C8_Witness ==
    /\ lastTok.op = "consume_token"
    /\ ~lastTok.result
    /\ lastTok.wasDead = "consumed"
    /\ \E n \in Serials : consumed[n] = 1

\* C9 (as claimed): once a token string has been consumed or found expired,
\* validate_token and consume_token never return True for that string again.
C9_DeadStaysDead ==
    (lastTok.op \in {"validate_token", "consume_token"} /\ lastTok.wasDead # "no")
        => ~lastTok.result

\* C10: validate_token(t) returns True iff t is in the active set and the clock
\* is not past its expiry; an expired t is removed from the active set, and for
\* an unrecognized or still-valid t the active set is left as it was.
C10_ValidateToken ==
    lastTok.op = "validate_token" =>
        LET t == lastTok.token
            before == lastTok.before
            known == t \in DOMAIN before
        IN  /\ lastTok.result = (known /\ now <= before[t].expires_at)
            /\ (known /\ now > before[t].expires_at) =>
                  /\ DOMAIN active_tokens = DOMAIN before \ {t}
                  /\ \A x \in DOMAIN active_tokens : active_tokens[x] = before[x]
            /\ ~(known /\ now > before[t].expires_at) => active_tokens = before

\* C10 witness: validate_token has just found a token expired and evicted it,
\* while another token stayed active.
C10_Witness ==
    /\ lastTok.op = "validate_token"
    /\ lastTok.token \in DOMAIN lastTok.before
    /\ lastTok.token \notin DOMAIN active_tokens
    /\ ~lastTok.result
    /\ active_tokens # << >>


\* ----------------------------------------------------------- SpecPairHost

\* C11: complete_pairing_as_host presented with a token that is not in the
\* active table (never issued, or consumed) or that is past its expiry returns
\* False at once and neither writes nor queues a write to the devices table.
C11_InvalidTokenRejected ==
    [][\A k \in HostCalls, t \in Tokens, d \in PeerIds, fp \in Fingerprints :
         (host_call(k, t, d, fp) /\ ~validate_token_result(active_tokens, t, now)) =>
            /\ hostCalls'[k].pc = "done"
            /\ hostCalls'[k].result = "false"
            /\ devices' = devices
            /\ devQueue' = devQueue]_vars

\* C11 witness: one call has consumed a token and recorded its peer; another
\* call that presented the consumed string, or an expired one, was refused and
\* its peer has no record.
C11_Witness ==
    \E k, j \in HostCalls :
        /\ hostCalls[j].result = "true"
        /\ hostCalls[j].peer \in DOMAIN devices
        /\ hostCalls[k].result = "false"
        /\ hostCalls[k].wasDead \in {"consumed", "expired"}
        /\ hostCalls[k].peer \notin DOMAIN devices

\* C12 (as claimed): complete_pairing_as_host called with a valid token goes on
\* to return True, and at the moment it returns True the ledger holds a trusted
\* Device record for the peer with the fingerprint passed, and the token is no
\* longer valid.
C12_ValidTokenPairs ==
    [][/\ \A k \in HostCalls, t \in Tokens, d \in PeerIds, fp \in Fingerprints :
            (host_call(k, t, d, fp) /\ validate_token_result(active_tokens, t, now)) =>
                hostCalls'[k].result # "false"
       /\ \A k \in HostCalls :
            (hostCalls[k].result # "true" /\ hostCalls'[k].result = "true") =>
                LET c == hostCalls'[k] IN
                /\ c.peer \in DOMAIN devices'
                /\ devices'[c.peer].is_trusted
                /\ devices'[c.peer].certificate_fingerprint = c.fp
                /\ ~validate_token_result(active_tokens', c.token, now')]_vars

\* C13 (as claimed): of two complete_pairing_as_host calls that validated the
\* same issued token for two different peers and were each suspended at the
\* awaited add_device, at most one returns True and at most one has its peer in
\* the devices table.
C13_SingleUseUnderOverlap ==
    \A k, j \in HostCalls :
        (/\ k # j
         /\ hostCalls[k].awaited /\ hostCalls[j].awaited
         /\ hostCalls[k].serial = hostCalls[j].serial
         /\ hostCalls[k].peer # hostCalls[j].peer) =>
            /\ ~(hostCalls[k].result = "true" /\ hostCalls[j].result = "true")
            /\ \/ hostCalls[k].pc \notin {"written", "done"}
               \/ hostCalls[j].pc \notin {"written", "done"}

\* ---------------------------------------------------------- SpecBroadcast
\* the open sessions: the websockets registered in either table
OpenSessions == Registered(srv_table) \cup Registered(cli_table)

\* C14: when add_item returns False in _on_clipboard_captured or in
\* _on_item_received, the call ends there: no broadcast is started, no session
\* is touched, the clipboard is not written and last_seen is not updated.
C14_DuplicateStops ==
    [][/\ \A item \in ClipboardItem, big \in BOOLEAN :
            (capture(item, big) /\ cbs'.outcome = "duplicate") =>
                /\ bcast' = bcast
                /\ UNCHANGED <<socks, clipboard, devices, items>>
       /\ \A c \in Socks, item \in ClipboardItem, big \in BOOLEAN :
            (rx_item(c, item, big) /\ cbs'.outcome = "duplicate") =>
                /\ bcast' = bcast
                /\ UNCHANGED <<socks, clipboard, devices, items>>]_vars

\* C14 witness: with a session open, a capture whose content_hash is stored has
\* just been refused by add_item.
C14_Witness ==
    /\ cbs.path = "capture"
    /\ cbs.outcome = "duplicate"
    /\ srv_table # << >>
    /\ bcast.pc = "idle"
    /\ items # {}

\* C15 (as claimed): when _on_item_received accepts an item from peer p, a
\* broadcast of that item starts to every open session except those to p.
C15_RebroadcastExceptSender ==
    [][\A c \in Socks, item \in ClipboardItem, big \in BOOLEAN :
         (rx_item(c, item, big) /\ cbs'.outcome = "accepted") =>
            LET p == socks[c].peer
                others ==
                    {srv_table[q] : q \in DOMAIN srv_table \ {p}}
                        \cup {cli_table[q] : q \in DOMAIN cli_table \ {p}}
            IN  others # {} =>
                    /\ bcast'.pc # "idle"
                    /\ bcast'.hash = item.content_hash
                    /\ bcast'.snap = others]_vars

\* C17 (as claimed): when _on_clipboard_captured accepts an item, the broadcast
\* it starts goes to every session open at that moment, those of the listening
\* side and those of the dialing side.
C17_CaptureReachesEverySession ==
    [][\A item \in ClipboardItem, big \in BOOLEAN :
         (capture(item, big) /\ cbs'.outcome = "accepted") =>
            bcast'.snap = OpenSessions]_vars

\* C18: when broadcast_item is through, it has attempted the send to every
\* session of its snapshot, once each, whichever of the sends raised.
C18_BroadcastIsolation ==
    bcast.pc = "done" =>
        /\ {bcast.tried[i] : i \in DOMAIN bcast.tried} = bcast.snap
        /\ Len(bcast.tried) = Cardinality(bcast.snap)

\* C18 witness: a broadcast over two sessions is through; its first send raised
\* and its second was made and went out.
C18_Witness ==
    /\ bcast.pc = "done"
    /\ Len(bcast.tried) = 2
    /\ bcast.tried[1] \in bcast.failed
    /\ bcast.tried[2] \notin bcast.failed

\* C19 (as claimed): while the connection of peer p's latest HELLO is open the
\* listening side's table maps p to it, and every send of broadcast_item
\* addressed to p goes out on it.
C19_NewerConnectionWins ==
    [][/\ \A p \in PeerIds :
            (newest'[p] # 0 /\ socks'[newest'[p]].state = "session") =>
                (p \in DOMAIN srv_table' /\ srv_table'[p] = newest'[p])
       /\ \A e \in bcast.todo :
            (bcast_send(e) /\ e.peer \in PeerIds) => e.sock = newest[e.peer]]_vars

\* C20 (as claimed): when the receive loop of a session ends, no table holds
\* that session any more; and a table gets a new or changed entry only in a
\* step that takes an inbound HELLO or is a connect_to_device call.
C20_RemovedAndNotRecreated ==
    [][/\ \A c \in Socks : loop_end(c) => c \notin OpenSessions'
       /\ \A d \in HelloIds :
            (d \in DOMAIN srv_table' /\ (d \notin DOMAIN srv_table
                                          \/ srv_table'[d] # srv_table[d])) =>
                \E c \in Socks : on_hello(c, d)
       /\ \A d \in HelloIds :
            (d \in DOMAIN cli_table' /\ (d \notin DOMAIN cli_table
                                          \/ cli_table'[d] # cli_table[d])) =>
                \E c \in Socks : dial(c, d)]_vars

\* --------------------------------------------------------------- SpecMesh

\* C16: in a mesh of mutually paired devices, whatever the sessions and the
\* order of deliveries, every device accepts a content hash at most once and
\* broadcasts it at most once, and the mesh comes to rest with no
\* CLIPBOARD_ITEM in flight.
C16_NoEchoLoop ==
    /\ [](\A n \in Nodes, h \in Payloads : accepts[n][h] <= 1 /\ bcasts[n][h] <= 1)
    /\ <>[](\A pr \in Pairs : wire[pr] = << >>)

\* C16 witness: two devices have dialed each other; one captured and broadcast a
\* payload, the other accepted it, wrote it to its clipboard, ran its capture on
\* the written text and sent nothing; nothing is in flight.
C16_Witness ==
    \E a, b \in Nodes, h \in Payloads :
        /\ <<a, b>> \in dialed /\ <<b, a>> \in dialed
        /\ bcasts[a][h] = 1
        /\ accepts[b][h] = 1
        /\ nodes[b].content = h
        /\ nodes[b].last_hash = h
        /\ ~nodes[b].ignore_next
        /\ bcasts[b][h] = 0
        /\ \A pr \in Pairs : wire[pr] = << >>

\* ---------------------------------------------------------------- transport
SessionsOf(c) == c \in Registered(srv_conns) \cup Registered(cli_conns)

\* C21: HELLO-first, on every connection and in both roles: a websocket is in a
\* session table, runs a receive loop or has handed a CLIPBOARD_ITEM to the
\* receive callback only if the first message read on it was a HELLO; a
\* connection whose first message was anything else has ended without any of that
C21_HelloFirst ==
    \A c \in Conns :
        /\ (SessionsOf(c) \/ ws[c].called \/ ws[c].pc \in {"loop", "cb"})
               => ws[c].first = "hello"
        /\ ws[c].first \in {"other", "error"}
               => ws[c].pc = "ended" /\ ~ws[c].called /\ ~SessionsOf(c)

\* a dialed connection has handed an item to the callback after the peer's HELLO
C21_Witness ==
    \E c \in Conns :
        /\ ws[c].role = "client" /\ ws[c].first = "hello" /\ ws[c].called
        /\ SessionsOf(c)

\* C22: connect_to_device returns the peer's device_id exactly when the HELLO
\* exchange succeeded (the peer's HELLO was read and ours was sent), and then the
\* dialing side's table maps that id to the websocket and a receive loop task
\* exists; when it returns None the table is as it was and no loop exists
C22_ConnectReturn ==
    [][\A c \in Conns :
          (ws'[c].role = "client" /\ ~ws[c].returned /\ ws'[c].returned) =>
              LET exchanged == ws'[c].first = "hello" /\ ws'[c].out.type = "hello"
                  r == ws'[c].result
              IN  /\ (r # NoId) <=> exchanged
                  /\ r # NoId => /\ r \in DOMAIN cli_conns'
                                 /\ cli_conns'[r] = c
                                 /\ ws'[c].task
                  /\ r = NoId => cli_conns' = cli_conns /\ ~ws'[c].task]_vars

\* C23: on every session, inbound or outbound, the receive callback runs first and
\* when it has returned an ACK carrying the item's id is sent back on that session
C23_AckAfterCallback ==
    [][\A c \in Conns :
          (ws[c].pc = "cb" /\ ws'[c].pc = "loop") =>
              ws'[c].out = [type |-> "ack", ref |-> ws[c].item]]_vars

\* C24: a malformed frame or an I/O error met by the receive loop of one session
\* ends that session and removes it from its table, and every other session stays
\* in its table with its loop as it was
C24_FaultIsolation ==
    [][\A c \in Conns, f \in Faults :
          ws_fault(c, f) =>
              /\ ws'[c].pc = "ended"
              /\ c \notin Registered(srv_conns') \cup Registered(cli_conns')
              /\ \A x \in Conns \ {c} :
                    /\ ws'[x] = ws[x]
                    /\ SessionsOf(x) =>
                          x \in Registered(srv_conns') \cup Registered(cli_conns')]_vars

\* ------------------------------------------------------------------ policy
\* the item is over max_item_size, or its type is switched off
Excluded(item, big) ==
    \/ big
    \/ TypeOf(item.content_hash) = "text" /\ ~sync_text
    \/ TypeOf(item.content_hash) = "image" /\ ~sync_images

\* C25: an item over max_item_size, or of a type that sync_text / sync_images
\* switches off, is rejected on local capture and on remote receipt alike: the
\* ledger gets no row, no broadcast starts and the clipboard is not written
C25_PolicyBothPaths ==
    [][/\ \A item \in ClipboardItem, big \in BOOLEAN :
            (capture(item, big) /\ cbs'.big = big /\ Excluded(item, big)) =>
                /\ bcast' = bcast
                /\ UNCHANGED <<items, clipboard>>
       /\ \A c \in Socks, item \in ClipboardItem, big \in BOOLEAN :
            (rx_item(c, item, big) /\ cbs'.big = big /\ Excluded(item, big)) =>
                /\ bcast' = bcast
                /\ UNCHANGED <<items, clipboard>>]_vars

\* ----------------------------------------------------------------- monitor
\* C26: content that set_clipboard_text wrote for an accepted remote item is
\* never handed to the capture callback, however the tasks of the change signal
\* and the periodic poll interleave
C26_WriteBackNotCaptured == ~callback.written_back

\* ------------------------------------------------------------- silent drop
\* what the sender of the item in c's callback sees on connection x when the
\* callback has returned: computed from the session alone, not from the ledger
ReplyOn(c, x) ==
    IF /\ links[c].dir = "in"
       /\ links[c].peer \in DOMAIN connections
       /\ connections[links[c].peer] = x
    THEN [type |-> "ack", ref |-> links[c].cb.msg.item.id]
    ELSE links[x].out

C28_NeverRegenerated ==
    [][initialize =>
          LET partial == Exists(cert_file) # Exists(key_file)
              corrupt == cert_file = Corrupt \/ key_file = Corrupt
          IN  /\ (partial \/ corrupt) =>
                     /\ identity'.last = "error"
                     /\ identity'.fingerprint = identity.fingerprint
                     /\ UNCHANGED <<cert_file, key_file>>
              /\ identity'.last = "generated" =>
                     ~Exists(cert_file) /\ ~Exists(key_file)]_vars

\* -------------------------------------------------------------------- sweep
\* C30: a pass of the periodic sweep removes every token whose expiry has passed
\* and removes no token that validate_token would accept at that instant; the
\* tokens it keeps are unchanged
C30_SweepRemovesOnlyExpired ==
    lastTok.op = "cleanup" =>
        LET before == lastTok.before IN
        \A t \in DOMAIN before :
            /\ now > before[t].expires_at => t \notin DOMAIN active_tokens
            /\ validate_token_result(before, t, now) =>
                  /\ t \in DOMAIN active_tokens
                  /\ active_tokens[t] = before[t]

\* ----------------------------------------------------------------- shutdown
\* C29: stop() cancels the background tasks, then stops accepting, then closes
\* the open sessions: when it has completed the tasks are cancelled, nothing is
\* accepted, and no session, inbound or outbound, is open with a receive loop
\* that could hand an item to the orchestrator
C29_StopClosesEverything ==
    [][(service.state # "stopped" /\ service'.state = "stopped") =>
          /\ service'.poll = "cancelled" /\ service'.sweep = "cancelled"
          /\ ~service'.listening
          /\ \A c \in Conns : ws'[c].pc \notin {"loop", "cb"}]_vars

\* ----------------------------------------------------------------- binding

\* C31 (as claimed): once a Device row exists for an id, no later call changes
\* the certificate_fingerprint stored for that id: after every step each id
\* that had a row still has one with the same fingerprint.
C31_BindingFixed ==
    [][\A d \in DOMAIN devices :
          /\ d \in DOMAIN devices'
          /\ devices'[d].certificate_fingerprint = devices[d].certificate_fingerprint]_vars

\* ------------------------------------------------------ token independence

\* C32: validate_token or consume_token on one token leaves every other
\* token's presence and expiry as they were, and after consume_token the
\* token it was called on is not valid, while the others are valid exactly
\* when they were before the call.
C32_TokensIndependent ==
    lastTok.op \in {"validate_token", "consume_token"} =>
       /\ \A x \in Tokens \ {lastTok.token} :
             /\ x \in DOMAIN active_tokens <=> x \in DOMAIN lastTok.before
             /\ x \in DOMAIN lastTok.before => active_tokens[x] = lastTok.before[x]
             /\ validate_token_result(active_tokens, x, now)
                   = validate_token_result(lastTok.before, x, now)
       /\ lastTok.op = "consume_token" =>
             ~validate_token_result(active_tokens, lastTok.token, now)

\* C32 witness: consume_token has just returned True for one token while
\* another token is still valid
C32_Witness ==
    /\ lastTok.op = "consume_token"
    /\ lastTok.result
    /\ \E x \in Tokens \ {lastTok.token} :
          /\ x \in DOMAIN lastTok.before
          /\ validate_token_result(active_tokens, x, now)

\* ------------------------------------------------------- get_active_tokens

\* C33 (as claimed): get_active_tokens lists a token if and only if
\* validate_token on it would return True at that instant, and the call
\* leaves the table of active tokens as it was.
C33_ListedIffValid ==
    lastTok.op = "get_active_tokens" =>
       /\ lastTok.listed = {t \in Tokens : validate_token_result(active_tokens, t, now)}
       /\ active_tokens = lastTok.before

\* ----------------------------------------------------- teardown of sessions

\* C34 (as claimed): an entry of a session table goes away only in the step
\* in which the websocket registered under it ends its receive loop; so when
\* an older websocket of peer p ends after a newer one has taken p's entry,
\* the table still maps p to the newer one.
C34_NewerWinsAtTeardown ==
    [][/\ \A p \in DOMAIN srv_table :
            (p \notin DOMAIN srv_table' \/ srv_table'[p] # srv_table[p]) =>
                \/ loop_end(srv_table[p])
                \/ \E c \in Socks : on_hello(c, p)
       /\ \A p \in DOMAIN cli_table :
            (p \notin DOMAIN cli_table' \/ cli_table'[p] # cli_table[p]) =>
                \/ loop_end(cli_table[p])
                \/ \E c \in Socks : dial(c, p)]_vars

\* ------------------------------------------------- disconnect and revocation

\* C35 (as claimed): whenever WebSocketClient.disconnect(device_id), called by
\* the service's revoke_device, comes to its end, it has not raised and the
\* dialing side's table has no entry for device_id.
C35_DisconnectNeverRaises ==
    [][(revoking.pc # "idle" /\ revoking'.pc = "idle") =>
          /\ ~revoking'.raised
          /\ revoking.id \notin DOMAIN client_connections']_vars

\* -------------------------------------------------- who is sent the content

\* C36 (as claimed): every CLIPBOARD_ITEM that broadcast_item sends goes to a
\* session whose peer device id has, at the time of the send, a Device record
\* with is_trusted true.
C36_SentOnlyToTrusted ==
    [][\A e \in bcast.todo :
          (bcast_send(e) /\ e.sock \notin bcast'.failed) =>
              TrustedDevice(conn, devices, e.peer)]_vars

\* C37 (as claimed): when the service's revoke_device(id) has come to its end,
\* neither the listening side's nor the dialing side's table holds a session
\* of peer id.
C37_RevokeClosesSessions ==
    [][(revoking.pc # "idle" /\ revoking'.pc = "idle") =>
          /\ revoking.id \notin DOMAIN connections'
          /\ revoking.id \notin DOMAIN client_connections'
          /\ \A c \in Conns :
                links'[c].peer = revoking.id => links'[c].state # "session"]_vars

\* ------------------------------------------------------------------ replies

\* C38 (as claimed): on the listening side the ACK for a CLIPBOARD_ITEM and the
\* PONG for a PING are sent on the connection the request arrived on: the
\* lookup of the reply's websocket never fails and a reply that goes out goes
\* out on that connection.
C38_ReplyOnSameConnection ==
    reply.type # "none" =>
       /\ reply.error # "KeyError"
       /\ reply.on # 0 => reply.on = reply.from

\* ------------------------------------------------- what a False result means

\* C39 (as claimed): whenever add_item has returned False, the ledger holds a
\* row with the content_hash of the item that was passed in.
C39_FalseMeansDuplicate ==
    ret.val = "false" => RowsWithHash(items, ret.hash) # {}

\* ------------------------------------------------------------- _ignore_next

\* C40: _ignore_next is one-shot. Every set_clipboard_text and
\* set_clipboard_image call leaves it true; the _process_clipboard invocation
\* that finds it true is skipped (no callback, _last_hash untouched) and
\* leaves it false; an invocation that finds it false is not skipped on its
\* account and leaves it false; nothing else changes it. So the first
\* invocation after a call is skipped and the one after that is not, unless
\* there was another call in between.
C40_IgnoreNextOneShot ==
    [][/\ (\E h \in Payloads : set_clipboard_text(h) \/ set_clipboard_image(h))
            => monitor'.ignore_next
       /\ (on_clipboard_changed \/ poll_clipboard) =>
            /\ ~monitor'.ignore_next
            /\ monitor.ignore_next =>
                  /\ callback' = callback
                  /\ monitor'.last_hash = monitor.last_hash
            /\ (~monitor.ignore_next /\ monitor.content # 0
                    /\ monitor.content # monitor.last_hash) =>
                  /\ callback'.hash = monitor.content
                  /\ monitor'.last_hash = monitor.content
       /\ (monitor_start \/ monitor_stop \/ \E h \in Payloads : copy_text(h))
            => monitor'.ignore_next = monitor.ignore_next]_vars

\* C40 witness: the clipboard holds what a set_clipboard call put there, a
\* _process_clipboard invocation has run since and has used up the flag, and
\* that invocation was skipped: the content is not in _last_hash
C40_Witness ==
    /\ monitor.written
    /\ ~monitor.ignore_next
    /\ monitor.content # monitor.last_hash

====
